---------------------------- MODULE Spec2Model ----------------------------
(***************************************************************************)
(* Model of the sprite tool's components and the state they act on: the    *)
(* timeline editor of AnimationModal (slicing, frame sequence, selection,  *)
(* playback loop, saving), the runtime preview of GamePlayground (physics, *)
(* animation state machine, game loop), the pixel editor of EditModal and  *)
(* App's plan with its saves and batch generation.                         *)
(*                                                                         *)
(* Indices are 0-based as in the source; Nth(s, i) reads element i of a    *)
(* sequence.  Times are in milliseconds.                                   *)
(***************************************************************************)
EXTENDS Integers, Sequences, FiniteSets, Bags, TLC

VARIABLES
    mounted,          \* the component this behaviour exercises
    catalog,          \* App: the assets of the plan that offer PREVIEW
    asset,            \* AnimationModal: the asset prop (previewAsset)
    animOpen,         \* AnimationModal: the isOpen prop (isAnimModalOpen)
    frames,           \* AnimationModal: useState frames
    selectedFrameIdx, \* AnimationModal: useState selectedFrameIdx
    fps,              \* AnimationModal: useState fps
    isPlaying,        \* AnimationModal: useState isPlaying
    elapsed,          \* AnimationModal: time of the last animate call minus
                      \* startTimeRef.current; -1 while that ref is unset (0)
    animRequestRef,   \* AnimationModal: requestRef.current (0 = undefined)
    pendingInit,      \* AnimationModal: initEditor calls awaiting the decode,
                      \* each with the strip and frame count it was started on
    canvasFrame,      \* AnimationModal: index of the frame last drawn, -1 none
    plan,             \* GamePlayground: the plan prop (its sprite catalog)
    gameOpen,         \* GamePlayground: the isOpen prop (isPlaygroundOpen)
    isLoading,        \* GamePlayground: useState isLoading
    gameRequestRef,   \* GamePlayground: requestRef.current (0 = undefined)
    queuedLoading,    \* GamePlayground: the isLoading value the effect's
                      \* setIsLoading calls have queued ("none": nothing queued)
    pendingLoads,     \* GamePlayground: loadGameAssets calls awaiting decodes
    keys,             \* the module-level input flags
    player,           \* GamePlayground: gameState.current.player
    assets,           \* GamePlayground: gameState.current.assets
    meta,             \* GamePlayground: gameState.current.meta
    sheet,            \* App: plan.assets, per asset id its image (a sequence
                      \* of pixel columns), its metadata.frames (0 when
                      \* undefined) and its status
    masterStyleImage, \* App: plan.masterStyleImage
    pendingSaves,     \* AnimationModal: handleSave calls awaiting decodes,
                      \* a bag of the frames each call captured
    onSaveCalls,      \* App: number of times onSave was invoked
    batch,            \* App: the approveAndGenerateRest call in progress, as
                      \* <<[assets, master, cur]>>: its newAssets array, the
                      \* masterStyleImage of the plan it closed over and the
                      \* asset being generated; <<>> when none is running
    editOpen,         \* EditModal: the isOpen prop (isEditModalOpen)
    mode,             \* EditModal: useState mode
    editLoading,      \* EditModal: the image of the load effect is decoding
    canvas,           \* EditModal: the pixels of the canvas, row-major;
                      \* <<>> while no image has been drawn on it
    tool,             \* EditModal: useState tool
    color,            \* EditModal: useState color, as six hex digits
    isDrawing,        \* EditModal: useState isDrawing
    palette,          \* EditModal: useState palette, a sequence of colours
    raf,              \* the browser's list of registered frame callbacks
    lastOp            \* the handler that ran last (observation only)

animVars == <<asset, animOpen, frames, selectedFrameIdx, fps, isPlaying,
              elapsed, animRequestRef, pendingInit, canvasFrame>>

gameVars == <<plan, gameOpen, isLoading, gameRequestRef, queuedLoading,
              pendingLoads, keys, player, assets, meta>>

saveVars == <<sheet, masterStyleImage, pendingSaves, onSaveCalls, batch>>

editVars ==
    <<editOpen, mode, editLoading, canvas, tool, color, isDrawing, palette>>

vars == <<mounted, catalog, animVars, gameVars, saveVars, editVars, raf,
          lastOp>>

-----------------------------------------------------------------------------
(* Bounds of the model.                                                    *)

\* Longest timeline duplicateFrame may build.
MaxLen == 3
\* Most loadGameAssets calls in flight at once.
MaxPendingLoads == 1

\* At most this many handleSave calls are awaiting their decodes.
MaxPendingSaves == 2
\* The strip of the world, in px, in which the game loop is followed.
WorldLeft == 90
WorldRight == 420

\* Asset ids a plan may hold.
AnimAssets == {"a1", "a2"}

\* metadata.frames of each asset (asset.metadata?.frames || 1).
DeclaredFrames(a) == IF a = "a1" THEN 2 ELSE 1

\* Time between two display callbacks, in ms.
FrameSteps == {125, 250}

\* Positions of the fps slider that the model moves it to.
FpsValues == {8, 16}

-----------------------------------------------------------------------------
(* Helpers.                                                                *)

Nth(s, i) == s[i + 1]

Indices(s) == 0 .. (Len(s) - 1)

\* requestAnimationFrame returns a handle that no live callback and no ref holds.
FreshId(cbs, held) ==
    CHOOSE n \in 1 .. (Cardinality(cbs) + Cardinality(held) + 1) :
        /\ n \notin {cb.id : cb \in cbs}
        /\ n \notin held
        /\ \A m \in 1 .. (n - 1) : m \in {cb.id : cb \in cbs} \/ m \in held

\* cancelAnimationFrame(id)
Cancel(cbs, id) == {cb \in cbs : cb.id # id}

-----------------------------------------------------------------------------
(* AnimationModal: slicing.                                                *)

\* A strip of asset a that is w pixel columns wide, every column different.
Strip(a, w) == [k \in 1 .. w |-> [a |-> a, i |-> k - 1]]

\* The strip of asset a when the plan is generated: one pixel column per
\* declared frame.
AnimSheet(a) ==
    [strip |-> Strip(a, DeclaredFrames(a)), frames |-> DeclaredFrames(a),
     status |-> "done"]

\* initEditor: frameCount = asset.metadata?.frames || 1
frameCountOf(sh) == IF sh.frames = 0 THEN 1 ELSE sh.frames

\* initEditor: frameWidth = Math.floor(img.width / frameCount)
frameWidthOf(sh) == Len(sh.strip) \div frameCountOf(sh)

SliceByColumn(sh) ==
    [k \in 1 .. frameCountOf(sh) |->
        SubSeq(sh.strip, k, k + frameWidthOf(sh) - 1)]

\* initEditor: frame i is the rectangle of the strip that starts at column
\* i * frameWidth and is frameWidth wide, for i in [0, frameCount).
Slice(sh) ==
    [k \in 1 .. frameCountOf(sh) |->
        SubSeq(sh.strip, (k - 1) * frameWidthOf(sh) + 1,
               k * frameWidthOf(sh))]

-----------------------------------------------------------------------------
(* AnimationModal: the editor actions as functions of the state.           *)

\* moveFrame: the early return when the target index is out of bounds.
moveRefused(fr, idx, direction) ==
    idx + direction < 0 \/ idx + direction >= Len(fr)

\* A move that copies the neighbour over element idx without the swap.
moveFramesCopied(fr, idx, direction) ==
    [k \in 1 .. Len(fr) |->
        IF k = idx + 1 THEN Nth(fr, idx + direction) ELSE fr[k]]

\* moveFrame: the sequence with elements idx and idx + direction swapped.
moveFrames(fr, idx, direction) ==
    [k \in 1 .. Len(fr) |->
        IF k = idx + 1 THEN Nth(fr, idx + direction)
        ELSE IF k = idx + direction + 1 THEN Nth(fr, idx)
        ELSE fr[k]]

\* A move that leaves the selection on the index it was called for.
moveSelectionStays(idx, direction) == idx

\* moveFrame: setSelectedFrameIdx(targetIdx)
moveSelection(idx, direction) == idx + direction

\* deleteFrame without a floor: a guard that refuses only an empty timeline.
deleteRefusedOnlyEmpty(fr) == Len(fr) <= 0

\* deleteFrame: the early return that keeps the last frame.
deleteRefused(fr) == Len(fr) <= 1

\* A removal that drops the element before idx.
deleteFramesBefore(fr, idx) ==
    IF idx \in Indices(fr)
    THEN [k \in 1 .. (Len(fr) - 1) |-> IF k < idx THEN fr[k] ELSE fr[k + 1]]
    ELSE fr

\* deleteFrame: frames.filter((_, i) => i !== idx)
deleteFrames(fr, idx) ==
    IF idx \in Indices(fr)
    THEN [k \in 1 .. (Len(fr) - 1) |-> IF k <= idx THEN fr[k] ELSE fr[k + 1]]
    ELSE fr

\* deleteFrame without the clamp: the selection is left where it was.
deleteSelectionKept(sel, newFrames) == sel

\* deleteFrame: the selection after the removal.
deleteSelection(sel, newFrames) ==
    IF sel >= Len(newFrames) THEN Len(newFrames) - 1 ELSE sel

\* A duplication that appends the copy at the end of the timeline.
duplicateFramesAppended(fr, idx) == fr \o <<Nth(fr, idx)>>

\* duplicateFrame: newFrames.splice(idx + 1, 0, newFrames[idx])
duplicateFrames(fr, idx) ==
    SubSeq(fr, 1, idx + 1) \o <<Nth(fr, idx)>> \o SubSeq(fr, idx + 2, Len(fr))

-----------------------------------------------------------------------------
(* AnimationModal: saving.                                                 *)

stitchReversed(fr) ==
    [p \in 1 .. (Len(fr[1]) * Len(fr)) |->
        fr[Len(fr) - ((p - 1) \div Len(fr[1]))][((p - 1) % Len(fr[1])) + 1]]

\* handleSave: the canvas is firstImg.width * frames.length wide and frame i
\* is drawn at x = i * firstImg.width.  Each frame of a timeline has the
\* width of the first (they come from one slicing), so no two drawings
\* overlap and the order in which the decodes complete is immaterial.
\* toDataURL('image/png') encodes the canvas without loss.
stitch(fr) ==
    [p \in 1 .. (Len(fr[1]) * Len(fr)) |->
        fr[((p - 1) \div Len(fr[1])) + 1][((p - 1) % Len(fr[1])) + 1]]

\* handleSave awaits the load of an Image of every frame.  A frame that is
\* zero columns wide is the URL "data:,", which never loads.
decodable(fr) == \A k \in Indices(fr) : Len(Nth(fr, k)) > 0

handleSaveAssetKeepsCount(sh, id, url, newFrameCount) ==
    [a \in DOMAIN sh |->
        IF a = id
        THEN [strip |-> url, frames |-> sh[a].frames, status |-> "done"]
        ELSE sh[a]]

handleSaveAssetAll(sh, id, url, newFrameCount) ==
    [a \in DOMAIN sh |->
        [strip |-> url,
         frames |-> IF newFrameCount # <<>> THEN newFrameCount[1]
                    ELSE sh[a].frames,
         status |-> "done"]]

\* App.handleSaveAsset, the assets: the asset with this id gets the new
\* image and status 'done' and, when a frame count is passed, the new frame
\* count; newFrameCount is <<>> when the argument is absent and <<n>> when
\* it is n.
handleSaveAsset(sh, id, url, newFrameCount) ==
    [a \in DOMAIN sh |->
        IF a = id
        THEN [strip |-> url,
              frames |-> IF newFrameCount # <<>> THEN newFrameCount[1]
                         ELSE sh[a].frames,
              status |-> "done"]
        ELSE sh[a]]

\* App.handleSaveAsset, masterStyleImage: it follows the saved asset when
\* it was that asset's image.
savedMaster(sh, master, id, url) ==
    IF id \in DOMAIN sh /\ sh[id].strip = master THEN url ELSE master

-----------------------------------------------------------------------------
(* AnimationModal: the animation loop effect.                              *)

\* A registered animate callback with the values its closure captured and
\* the closure's local currentFrame.
AnimCallback(id, fr, f, playing, sel, cur) ==
    [id |-> id, comp |-> "anim", frames |-> fr, fps |-> f,
     isPlaying |-> playing, selectedFrameIdx |-> sel, currentFrame |-> cur]

AnimCallbacks == {cb \in raf : cb.comp = "anim"}

\* A cleanup that forgets the cancellation.
AnimCleanupLeaking(cbs, ref) == cbs

\* The effect's cleanup: if (requestRef.current) cancelAnimationFrame(...)
AnimCleanup(cbs, ref) == IF ref # 0 THEN Cancel(cbs, ref) ELSE cbs

\* The effect's guard: the loop runs only while open with frames.
AnimLoopRuns(open, fr) == open /\ fr # <<>>

\* A re-run of the effect after a commit that changed one of its
\* dependencies: the previous run's cleanup (when that run had started the
\* loop), then the body with the committed values.
AnimEffect(open2, frames2, fps2, playing2, sel2) ==
    LET cbs1 == IF AnimLoopRuns(animOpen, frames)
                THEN AnimCleanup(raf, animRequestRef) ELSE raf
    IN  IF AnimLoopRuns(open2, frames2)
        THEN LET id == FreshId(cbs1, {animRequestRef})
             IN  /\ raf' = cbs1 \cup
                        {AnimCallback(id, frames2, fps2, playing2, sel2, 0)}
                 /\ animRequestRef' = id
        ELSE /\ raf' = cbs1
             /\ UNCHANGED animRequestRef

\* animate: the frame shown at an advance point while playing.
nextFrame(cur, fr) == (cur + 1) % Len(fr)

\* Paused display without the validity test on the selection.
pausedFrameUnchecked(sel, fr) == sel

\* Paused display that falls back to the last frame instead of frame 0.
pausedFrameLast(sel, fr) == IF sel < Len(fr) THEN sel ELSE Len(fr) - 1

\* animate: the frame shown at an advance point while paused.
pausedFrame(sel, fr) == IF sel < Len(fr) THEN sel ELSE 0

\* animate: deltaTime > interval, with interval = 1000 / fps.
advanceDue(deltaTime, f) == deltaTime * f > 1000

-----------------------------------------------------------------------------
(* GamePlayground: state after construction.                               *)

\* const keys = { left: false, right: false, ..., space: false }
NoKeys == [left |-> FALSE, right |-> FALSE, space |-> FALSE]

\* useRef({ player: {...}, ... }): positions and speeds in units of 1/5 px.
NewPlayer ==
    [x |-> 500, y |-> 0, vx |-> 0, vy |-> 0, state |-> "idle",
     facingRight |-> TRUE, grounded |-> FALSE, frameIndex |-> 0,
     frameTimer |-> 0]

NoAssets == [idle |-> "null", run |-> "null", jump |-> "null", tile |-> "null"]

NewMeta == [idleFrames |-> 1, runFrames |-> 1, jumpFrames |-> 1]

NoPlan == [idle |-> 0, run |-> 0, jump |-> 0, tile |-> FALSE]

\* The sprite catalogs a plan may resolve to: frames per slot (0: no asset).
GamePlans ==
    {[idle |-> 1, run |-> 2, jump |-> 3, tile |-> TRUE],
     [idle |-> 2, run |-> 0, jump |-> 0, tile |-> FALSE],
     NoPlan}

KeyNames == {"left", "right", "space"}

\* No Save was activated, and no batch generation is running.
NothingSaved ==
    /\ pendingSaves = EmptyBag
    /\ onSaveCalls = 0
    /\ batch = <<>>

\* The concept art of the plan, an image of its own.
ConceptArt == <<[a |-> "concept", i |-> 0]>>

\* const [mode, ...] = useState('AI'), [tool, ...] = useState('brush'),
\* [color, ...] = useState('#ffffff'), [isDrawing, ...] = useState(false)
EditConstructed ==
    /\ editOpen = FALSE
    /\ mode = "AI"
    /\ editLoading = FALSE
    /\ canvas = <<>>
    /\ tool = "brush"
    /\ color = <<15, 15, 15, 15, 15, 15>>
    /\ isDrawing = FALSE
    /\ palette = <<>>

\* The preview's state in a behaviour that exercises the timeline editor.
GameUnused ==
    /\ plan = NoPlan
    /\ gameOpen = FALSE
    /\ isLoading = TRUE
    /\ gameRequestRef = 0
    /\ queuedLoading = "none"
    /\ pendingLoads = 0
    /\ keys = NoKeys
    /\ player = NewPlayer
    /\ assets = NoAssets
    /\ meta = NewMeta

-----------------------------------------------------------------------------
(* Initial state: the component is mounted by the first preview request;   *)
(* nothing is open, nothing decoded.                                       *)

InitAnim ==
    /\ mounted = "AnimationModal"
    /\ catalog = {"a1"}
    /\ asset \in catalog
    /\ animOpen = FALSE
    /\ frames = <<>>
    /\ selectedFrameIdx = 0
    /\ fps = 8
    /\ isPlaying = TRUE
    /\ elapsed = -1
    /\ animRequestRef = 0
    /\ pendingInit = {}
    /\ canvasFrame = -1
    /\ raf = {}
    /\ lastOp = "init"
    /\ sheet = [a \in catalog |-> AnimSheet(a)]
    /\ masterStyleImage = ConceptArt
    /\ NothingSaved
    /\ GameUnused
    /\ EditConstructed

-----------------------------------------------------------------------------
(* AnimationModal: actions.                                                *)

\* The behaviours followed run to the first activation of Save and the
\* completion of the saves of that session: no preview is opened later.
\*
\* App: onPreviewAnimation sets previewAsset and opens the modal; the
\* initialization effect starts initEditor and resets startTimeRef; the
\* animation effect runs with the frames the state still holds.
OpenPreview(a) ==
    /\ mounted = "AnimationModal"
    /\ a \in catalog
    /\ ~animOpen
    /\ NothingSaved
    /\ asset' = a
    /\ animOpen' = TRUE
    /\ pendingInit' = pendingInit \cup {sheet[a]}
    /\ elapsed' = -1
    /\ AnimEffect(TRUE, frames, fps, isPlaying, selectedFrameIdx)
    /\ lastOp' = "other"
    /\ UNCHANGED <<gameVars, editVars, saveVars, mounted, catalog, frames, selectedFrameIdx, fps, isPlaying,
                   canvasFrame>>

\* initEditor after the await: the strip is sliced and setFrames commits.
InitDecoded(sh) ==
    /\ mounted = "AnimationModal"
    /\ sh \in pendingInit
    /\ pendingInit' = pendingInit \ {sh}
    /\ frames' = Slice(sh)
    /\ AnimEffect(animOpen, Slice(sh), fps, isPlaying, selectedFrameIdx)
    /\ lastOp' = "initDecoded"
    /\ UNCHANGED <<gameVars, editVars, saveVars, mounted, catalog, asset, animOpen, selectedFrameIdx, fps, isPlaying,
                   elapsed, canvasFrame>>

\* onClose: isOpen becomes false, the canvas leaves the document.
CloseModal ==
    /\ mounted = "AnimationModal"
    /\ animOpen
    /\ animOpen' = FALSE
    /\ canvasFrame' = -1
    /\ AnimEffect(FALSE, frames, fps, isPlaying, selectedFrameIdx)
    /\ lastOp' = "other"
    /\ UNCHANGED <<gameVars, editVars, saveVars, mounted, catalog, asset, frames, selectedFrameIdx, fps, isPlaying,
                   elapsed, pendingInit>>

\* Click on a frame of the timeline: select it and pause.
SelectFrame(idx) ==
    /\ mounted = "AnimationModal"
    /\ animOpen
    /\ idx \in Indices(frames)
    /\ selectedFrameIdx' = idx
    /\ isPlaying' = FALSE
    /\ IF idx # selectedFrameIdx \/ isPlaying
       THEN AnimEffect(animOpen, frames, fps, FALSE, idx)
       ELSE UNCHANGED <<raf, animRequestRef>>
    /\ lastOp' = "other"
    /\ UNCHANGED <<gameVars, editVars, saveVars, mounted, catalog, asset, animOpen, frames, fps, elapsed,
                   pendingInit, canvasFrame>>

MoveFrame(idx, direction) ==
    /\ mounted = "AnimationModal"
    /\ animOpen
    /\ idx \in Indices(frames)
    /\ IF moveRefused(frames, idx, direction)
       THEN /\ lastOp' = "moveRefused"
            /\ UNCHANGED <<frames, selectedFrameIdx, raf, animRequestRef>>
       ELSE /\ frames' = moveFrames(frames, idx, direction)
            /\ selectedFrameIdx' = moveSelection(idx, direction)
            /\ AnimEffect(animOpen, moveFrames(frames, idx, direction), fps,
                          isPlaying, moveSelection(idx, direction))
            /\ lastOp' = "moveFrame"
    /\ UNCHANGED <<gameVars, editVars, saveVars, mounted, catalog, asset, animOpen, fps, isPlaying, elapsed,
                   pendingInit, canvasFrame>>

DeleteFrame(idx) ==
    /\ mounted = "AnimationModal"
    /\ animOpen
    /\ idx \in Indices(frames)
    /\ IF deleteRefused(frames)
       THEN /\ lastOp' = "deleteRefused"
            /\ UNCHANGED <<frames, selectedFrameIdx, raf, animRequestRef>>
       ELSE LET newFrames == deleteFrames(frames, idx)
                sel == deleteSelection(selectedFrameIdx, newFrames)
            IN  /\ frames' = newFrames
                /\ selectedFrameIdx' = sel
                /\ AnimEffect(animOpen, newFrames, fps, isPlaying, sel)
                /\ lastOp' = "deleteFrame"
    /\ UNCHANGED <<gameVars, editVars, saveVars, mounted, catalog, asset, animOpen, fps, isPlaying, elapsed,
                   pendingInit, canvasFrame>>

DuplicateFrame(idx) ==
    /\ mounted = "AnimationModal"
    /\ animOpen
    /\ idx \in Indices(frames)
    /\ Len(frames) < MaxLen
    /\ frames' = duplicateFrames(frames, idx)
    /\ selectedFrameIdx' = idx + 1
    /\ AnimEffect(animOpen, duplicateFrames(frames, idx), fps, isPlaying,
                  idx + 1)
    /\ lastOp' = "duplicateFrame"
    /\ UNCHANGED <<gameVars, editVars, saveVars, mounted, catalog, asset, animOpen, fps, isPlaying, elapsed,
                   pendingInit, canvasFrame>>

\* The fps slider's onChange.
SetFps(f) ==
    /\ mounted = "AnimationModal"
    /\ animOpen
    /\ f # fps
    /\ fps' = f
    /\ AnimEffect(animOpen, frames, f, isPlaying, selectedFrameIdx)
    /\ lastOp' = "setFps"
    /\ UNCHANGED <<gameVars, editVars, saveVars, mounted, catalog, asset, animOpen, frames, selectedFrameIdx,
                   isPlaying, elapsed, pendingInit, canvasFrame>>

\* The play / stop button.
TogglePlay ==
    /\ mounted = "AnimationModal"
    /\ animOpen
    /\ isPlaying' = ~isPlaying
    /\ AnimEffect(animOpen, frames, fps, ~isPlaying, selectedFrameIdx)
    /\ lastOp' = "other"
    /\ UNCHANGED <<gameVars, editVars, saveVars, mounted, catalog, asset, animOpen, frames, selectedFrameIdx, fps,
                   elapsed, pendingInit, canvasFrame>>

\* One display callback of the browser runs a registered animate(time), dt
\* after the previous callback.
\* complete: whether the frame's Image has finished loading when it is drawn.
AnimTick(cb, dt, complete) ==
    /\ mounted = "AnimationModal"
    /\ cb \in AnimCallbacks
    /\ LET deltaTime == IF elapsed = -1 THEN 0 ELSE elapsed + dt
           due == advanceDue(deltaTime, cb.fps)
           cur == IF ~due THEN cb.currentFrame
                  ELSE IF cb.isPlaying
                       THEN nextFrame(cb.currentFrame, cb.frames)
                       ELSE pausedFrame(cb.selectedFrameIdx, cb.frames)
           rest == raf \ {cb}
           id == FreshId(rest, {animRequestRef})
       IN  /\ elapsed' = IF due THEN 0 ELSE deltaTime
           /\ canvasFrame' = IF due /\ animOpen /\ cur \in Indices(cb.frames)
                                    /\ complete
                             THEN cur ELSE canvasFrame
           /\ raf' = rest \cup {AnimCallback(id, cb.frames, cb.fps,
                                   cb.isPlaying, cb.selectedFrameIdx, cur)}
           /\ animRequestRef' = id
           /\ lastOp' = IF ~due THEN "tickWait"
                        ELSE IF cb.isPlaying THEN "tickAdvance" ELSE "tickPin"
    /\ UNCHANGED <<gameVars, editVars, saveVars, mounted, catalog, asset, animOpen, frames, selectedFrameIdx, fps,
                   isPlaying, pendingInit>>

\* The Save button: handleSave starts, captures asset and frames, and waits
\* for the decodes.  With an empty timeline it returns at once.  The button
\* stays enabled while a save is pending; a repeated activation is followed
\* when no edit came between (a double click).
HandleSave ==
    /\ mounted = "AnimationModal"
    /\ animOpen
    /\ frames # <<>>
    /\ BagCardinality(pendingSaves) < MaxPendingSaves
    /\ \A sv \in BagToSet(pendingSaves) : sv.frames = frames
    /\ pendingSaves' =
           pendingSaves (+) SetToBag({[id |-> asset, frames |-> frames]})
    /\ lastOp' = "handleSave"
    /\ UNCHANGED <<gameVars, editVars, animVars, sheet, masterStyleImage,
                   onSaveCalls, batch, mounted, catalog, raf>>

\* A completion that stitches the timeline as it is when the decodes are
\* done, and not the frames handleSave started with.
SaveDoneCurrentTimeline(sv) ==
    /\ mounted = "AnimationModal"
    /\ BagIn(sv, pendingSaves)
    /\ decodable(sv.frames)
    /\ pendingSaves' = pendingSaves (-) SetToBag({sv})
    /\ sheet' = handleSaveAsset(sheet, sv.id, stitch(frames),
                                <<Len(sv.frames)>>)
    /\ masterStyleImage' =
           savedMaster(sheet, masterStyleImage, sv.id, stitch(frames))
    /\ onSaveCalls' = onSaveCalls + 1
    /\ animOpen' = FALSE
    /\ canvasFrame' = -1
    /\ IF animOpen
       THEN AnimEffect(FALSE, frames, fps, isPlaying, selectedFrameIdx)
       ELSE UNCHANGED <<raf, animRequestRef>>
    /\ lastOp' = "saveDone"
    /\ UNCHANGED <<gameVars, editVars, mounted, catalog, asset, frames,
                   selectedFrameIdx, fps, isPlaying, elapsed, pendingInit,
                   batch>>

\* handleSave after its awaits: the frames are stitched, onSave (App's
\* handleSaveAsset) stores the strip and the frame count, onClose closes
\* the modal.
SaveDone(sv) ==
    /\ mounted = "AnimationModal"
    /\ BagIn(sv, pendingSaves)
    /\ decodable(sv.frames)
    /\ pendingSaves' = pendingSaves (-) SetToBag({sv})
    /\ sheet' = handleSaveAsset(sheet, sv.id, stitch(sv.frames),
                                <<Len(sv.frames)>>)
    /\ masterStyleImage' =
           savedMaster(sheet, masterStyleImage, sv.id, stitch(sv.frames))
    /\ onSaveCalls' = onSaveCalls + 1
    /\ animOpen' = FALSE
    /\ canvasFrame' = -1
    /\ IF animOpen
       THEN AnimEffect(FALSE, frames, fps, isPlaying, selectedFrameIdx)
       ELSE UNCHANGED <<raf, animRequestRef>>
    /\ lastOp' = "saveDone"
    /\ UNCHANGED <<gameVars, editVars, mounted, catalog, asset, frames,
                   selectedFrameIdx, fps, isPlaying, elapsed, pendingInit,
                   batch>>

NextAnim ==
    \/ \E a \in AnimAssets : OpenPreview(a)
    \/ \E sh \in pendingInit : InitDecoded(sh)
    \/ CloseModal
    \/ \E idx \in 0 .. (MaxLen - 1) : SelectFrame(idx)
    \/ \E idx \in 0 .. (MaxLen - 1), d \in {-1, 1} : MoveFrame(idx, d)
    \/ \E idx \in 0 .. (MaxLen - 1) : DeleteFrame(idx)
    \/ \E idx \in 0 .. (MaxLen - 1) : DuplicateFrame(idx)
    \/ \E f \in FpsValues : SetFps(f)
    \/ TogglePlay
    \/ \E cb \in raf, dt \in FrameSteps, complete \in BOOLEAN :
           AnimTick(cb, dt, complete)

SpecAnim == InitAnim /\ [][NextAnim]_vars

\* The strips the save is followed on: width w and declared frame count c,
\* with w a multiple of c, w not a multiple of c, and w below c.
StripShapes == {[w |-> 4, c |-> 1], [w |-> 5, c |-> 2], [w |-> 1, c |-> 2]}

\* As InitAnim, on a strip of any of these widths and frame counts.
InitSave ==
    /\ mounted = "AnimationModal"
    /\ catalog = {"a1"}
    /\ asset \in catalog
    /\ animOpen = FALSE
    /\ frames = <<>>
    /\ selectedFrameIdx = 0
    /\ fps = 8
    /\ isPlaying = TRUE
    /\ elapsed = -1
    /\ animRequestRef = 0
    /\ pendingInit = {}
    /\ canvasFrame = -1
    /\ raf = {}
    /\ lastOp = "init"
    /\ \E sp \in StripShapes :
           sheet = [a \in catalog |->
                       [strip |-> Strip(a, sp.w), frames |-> sp.c,
                        status |-> "done"]]
    /\ masterStyleImage = ConceptArt
    /\ NothingSaved
    /\ GameUnused
    /\ EditConstructed

\* The timeline editor with its Save button, the playback controls left
\* alone.
NextSave ==
    \/ \E a \in AnimAssets : OpenPreview(a)
    \/ \E sh \in pendingInit : InitDecoded(sh)
    \/ CloseModal
    \/ \E idx \in 0 .. (MaxLen - 1), d \in {-1, 1} : MoveFrame(idx, d)
    \/ \E idx \in 0 .. (MaxLen - 1) : DeleteFrame(idx)
    \/ \E idx \in 0 .. (MaxLen - 1) : DuplicateFrame(idx)
    \/ HandleSave
    \/ \E sv \in BagToSet(pendingSaves) : SaveDone(sv)

SpecSave == InitSave /\ [][NextSave]_vars

\* The timeline editor opened on one asset after another: App keeps the
\* one AnimationModal mounted and changes its asset prop.
InitSwitch ==
    /\ mounted = "AnimationModal"
    /\ catalog = AnimAssets
    /\ asset \in catalog
    /\ animOpen = FALSE
    /\ frames = <<>>
    /\ selectedFrameIdx = 0
    /\ fps = 8
    /\ isPlaying = TRUE
    /\ elapsed = -1
    /\ animRequestRef = 0
    /\ pendingInit = {}
    /\ canvasFrame = -1
    /\ raf = {}
    /\ lastOp = "init"
    /\ sheet = [a \in catalog |-> AnimSheet(a)]
    /\ masterStyleImage = ConceptArt
    /\ NothingSaved
    /\ GameUnused
    /\ EditConstructed

NextSwitch ==
    \/ \E a \in AnimAssets : OpenPreview(a)
    \/ \E sh \in pendingInit : InitDecoded(sh)
    \/ CloseModal
    \/ \E idx \in 0 .. (MaxLen - 1) : DuplicateFrame(idx)
    \/ HandleSave
    \/ \E sv \in BagToSet(pendingSaves) : SaveDone(sv)

SpecSwitch == InitSwitch /\ [][NextSwitch]_vars

-----------------------------------------------------------------------------
(* GamePlayground: one pass of loop(time) over the player, in the source's  *)
(* order.  Lengths and speeds are integers in units of 1/5 px, in which    *)
(* gravity (0.8) and the jump impulse (-15) are exact; the product with    *)
(* the friction factor 0.8 is truncated to that unit.                      *)

Px(n) == 5 * n

TruncDiv(a, b) == IF a >= 0 THEN a \div b ELSE -((-a) \div b)

Abs(a) == IF a >= 0 THEN a ELSE -a

\* const gravity = 0.8
gravity == 4

\* const jumpForce = -15
jumpForce == -75

\* const floorY = canvas.height - 64, the canvas being 450 px high
floorY == Px(450 - 64)

\* if (keys.right) ...; if (keys.left) ...
applyInput(p, k) ==
    LET p1 == IF k.right
              THEN [p EXCEPT !.vx = @ + Px(1), !.facingRight = TRUE] ELSE p
    IN  IF k.left
        THEN [p1 EXCEPT !.vx = @ - Px(1), !.facingRight = FALSE] ELSE p1

\* vx *= friction; vy += gravity; x += vx; y += vy
applyPhysics(p) ==
    LET vx == TruncDiv(p.vx * 4, 5)
        vy == p.vy + gravity
    IN  [p EXCEPT !.vx = vx, !.vy = vy, !.x = @ + vx, !.y = @ + vy]

\* A floor that stops the fall without moving the player back onto it.
floorCollisionNoSnap(p) ==
    IF p.y + Px(32) > floorY
    THEN [p EXCEPT !.vy = 0, !.grounded = TRUE]
    ELSE [p EXCEPT !.grounded = FALSE]

\* Floor collision.  The player's height is 32.
floorCollision(p) ==
    IF p.y + Px(32) > floorY
    THEN [p EXCEPT !.y = floorY - Px(32), !.vy = 0, !.grounded = TRUE]
    ELSE [p EXCEPT !.grounded = FALSE]

\* A jump that does not ask whether the player is grounded.
applyJumpInAir(p, k) ==
    IF k.space
    THEN [p EXCEPT !.vy = jumpForce, !.grounded = FALSE]
    ELSE p

\* if (keys.space && state.player.grounded)
applyJump(p, k) ==
    IF k.space /\ p.grounded
    THEN [p EXCEPT !.vy = jumpForce, !.grounded = FALSE]
    ELSE p

\* Math.abs(vx) > 0.5
isRunning(vx) == 2 * Abs(vx) > Px(1)

\* State Machine
stateMachine(p) ==
    [p EXCEPT !.state = IF ~p.grounded THEN "jump"
                        ELSE IF isRunning(p.vx) THEN "run" ELSE "idle"]

\* The platform's AABB test, made only when a tile bitmap is loaded.
platformHit(p) ==
    /\ p.x + Px(32) > Px(300)
    /\ p.x < Px(396)
    /\ p.y + Px(32) > floorY - Px(100)
    /\ p.y + Px(32) < floorY - Px(90)
    /\ p.vy > 0

platformCollision(p, a) ==
    IF a.tile # "null" /\ platformHit(p)
    THEN [p EXCEPT !.y = floorY - Px(100) - Px(32), !.vy = 0,
                   !.grounded = TRUE]
    ELSE p

\* 4. Player: the bitmap and the frame count of the movement state.
currentImg(p, a) ==
    IF p.state = "run" THEN a.run
    ELSE IF p.state = "jump" THEN a.jump ELSE a.idle

totalFrames(p, m) ==
    IF p.state = "run" THEN m.runFrames
    ELSE IF p.state = "jump" THEN m.jumpFrames ELSE m.idleFrames

\* frameTimer > 8
frameDue(timer) == timer > 8

\* Draw Sprite: the source rectangle of frame k of a bitmap W wide with c
\* frames.  frameW = currentImg.width / totalFrames is not rounded: each
\* number is the fraction <<numerator, denominator>>.
sourceRect(k, W, c) == [x |-> <<k * W, c>>, w |-> <<W, c>>]

\* Update Animation Frame, when the state's bitmap is loaded.
animatePlayer(p, a, m) ==
    IF currentImg(p, a) = "null" THEN p
    ELSE IF frameDue(p.frameTimer + 1)
         THEN [p EXCEPT !.frameIndex = (@ + 1) % totalFrames(p, m),
                        !.frameTimer = 0]
         ELSE [p EXCEPT !.frameTimer = @ + 1]

\* The body of loop(time) under if (canvas && ctx).
gameStep(p, k, a, m) ==
    animatePlayer(
        platformCollision(
            stateMachine(applyJump(floorCollision(
                applyPhysics(applyInput(p, k))), k)),
            a),
        a, m)

-----------------------------------------------------------------------------
(* GamePlayground: asset loading.                                          *)

\* loadGameAssets has a decode to await when some slot has a bitmap.
loadIsAsync(pl) == pl.idle > 0 \/ pl.run > 0 \/ pl.jump > 0 \/ pl.tile

\* Reset Position (the synchronous start of loadGameAssets).
resetPosition(p) ==
    [p EXCEPT !.x = Px(100), !.y = Px(200), !.vx = 0, !.vy = 0]

\* Load into State, then the fallbacks for run and jump.
loadedAssets(a, pl) ==
    LET a1 == [idle |-> IF pl.idle > 0 THEN "idle" ELSE a.idle,
               run  |-> IF pl.run > 0 THEN "run" ELSE a.run,
               jump |-> IF pl.jump > 0 THEN "jump" ELSE a.jump,
               tile |-> IF pl.tile THEN "tile" ELSE a.tile]
        a2 == IF a1.run = "null" THEN [a1 EXCEPT !.run = a1.idle] ELSE a1
    IN  IF a2.jump = "null" THEN [a2 EXCEPT !.jump = a2.idle] ELSE a2

loadedMeta(a, m, pl) ==
    LET a1 == [idle |-> IF pl.idle > 0 THEN "idle" ELSE a.idle,
               run  |-> IF pl.run > 0 THEN "run" ELSE a.run,
               jump |-> IF pl.jump > 0 THEN "jump" ELSE a.jump]
        m1 == [idleFrames |-> IF pl.idle > 0 THEN pl.idle ELSE m.idleFrames,
               runFrames  |-> IF pl.run > 0 THEN pl.run ELSE m.runFrames,
               jumpFrames |-> IF pl.jump > 0 THEN pl.jump ELSE m.jumpFrames]
        m2 == IF a1.run = "null"
              THEN [m1 EXCEPT !.runFrames = m1.idleFrames] ELSE m1
    IN  IF a1.jump = "null"
        THEN [m2 EXCEPT !.jumpFrames = m2.idleFrames] ELSE m2

\* The order in which loadGameAssets awaits its decodes.
slotOrder(s) ==
    CASE s = "idle" -> 1 [] s = "run" -> 2 [] s = "jump" -> 3
      [] s = "tile" -> 4

\* The slot's asset was found and has an imageUrl.
slotPresent(pl, s) == IF s = "tile" THEN pl.tile ELSE pl[s] > 0

\* The slots when the decode of slot f is rejected: the decodes awaited
\* before it have been assigned, the rest of the try block is skipped.
failedAssets(a, pl, f) ==
    [s \in DOMAIN a |->
        IF slotPresent(pl, s) /\ slotOrder(s) < slotOrder(f)
        THEN s ELSE a[s]]

failedMeta(m, pl, f) ==
    [idleFrames |-> IF slotPresent(pl, "idle") /\ slotOrder("idle") < slotOrder(f)
                    THEN pl.idle ELSE m.idleFrames,
     runFrames  |-> IF slotPresent(pl, "run") /\ slotOrder("run") < slotOrder(f)
                    THEN pl.run ELSE m.runFrames,
     jumpFrames |-> IF slotPresent(pl, "jump") /\ slotOrder("jump") < slotOrder(f)
                    THEN pl.jump ELSE m.jumpFrames]

-----------------------------------------------------------------------------
(* GamePlayground: the game loop effect.                                   *)

GameCallback(id) == [id |-> id, comp |-> "game"]

GameCallbacks == {cb \in raf : cb.comp = "game"}

\* A cleanup that forgets the cancellation.
GameCleanupLeaking(cbs, ref) == cbs

\* The effect's cleanup: if (requestRef.current) cancelAnimationFrame(...)
GameCleanup(cbs, ref) == IF ref # 0 THEN Cancel(cbs, ref) ELSE cbs

\* The effect's guard: the loop runs only while open and loaded.
GameLoopRuns(open, loading) == open /\ ~loading

\* A re-run of the effect after a commit that changed isOpen or isLoading.
GameEffect(open2, loading2) ==
    LET cbs1 == IF GameLoopRuns(gameOpen, isLoading)
                THEN GameCleanup(raf, gameRequestRef) ELSE raf
    IN  IF GameLoopRuns(open2, loading2)
        THEN LET id == FreshId(cbs1, {gameRequestRef})
             IN  /\ raf' = cbs1 \cup {GameCallback(id)}
                 /\ gameRequestRef' = id
        ELSE /\ raf' = cbs1
             /\ UNCHANGED gameRequestRef

-----------------------------------------------------------------------------
(* Initial states.                                                         *)

\* The editor's state in a behaviour that exercises the runtime preview.
AnimUnused ==
    /\ catalog = {}
    /\ asset = "a1"
    /\ animOpen = FALSE
    /\ frames = <<>>
    /\ selectedFrameIdx = 0
    /\ fps = 8
    /\ isPlaying = TRUE
    /\ elapsed = -1
    /\ animRequestRef = 0
    /\ pendingInit = {}
    /\ canvasFrame = -1
    /\ sheet = <<>>
    /\ masterStyleImage = ConceptArt
    /\ NothingSaved

\* GamePlayground is mounted once a plan exists; the preview is closed.
InitGame ==
    /\ mounted = "GamePlayground"
    /\ plan \in GamePlans
    /\ gameOpen = FALSE
    /\ isLoading = TRUE
    /\ gameRequestRef = 0
    /\ queuedLoading = "none"
    /\ pendingLoads = 0
    /\ keys = NoKeys
    /\ player = NewPlayer
    /\ assets = NoAssets
    /\ meta = NewMeta
    /\ raf = {}
    /\ lastOp = "init"
    /\ AnimUnused
    /\ EditConstructed

-----------------------------------------------------------------------------
(* GamePlayground: actions.                                                *)

\* queuedLoading is "true" or "false" for a queued value, "trueAfterFrame"
\* once a display frame has passed with "true" still queued.
\*
\* The playground button: isOpen becomes true.  The loading effect calls
\* setIsLoading(true) and starts loadGameAssets, which resets the position
\* and, with nothing to decode, runs through to setIsLoading(false); the game
\* loop effect of the same commit still sees the previous isLoading.
OpenPlayground ==
    /\ mounted = "GamePlayground"
    /\ ~gameOpen
    /\ pendingLoads < MaxPendingLoads
    /\ gameOpen' = TRUE
    /\ player' = resetPosition(player)
    /\ IF loadIsAsync(plan)
       THEN /\ pendingLoads' = pendingLoads + 1
            /\ queuedLoading' = IF isLoading THEN "none" ELSE "true"
            /\ UNCHANGED <<assets, meta>>
       ELSE /\ assets' = loadedAssets(assets, plan)
            /\ meta' = loadedMeta(assets, meta, plan)
            /\ queuedLoading' = IF isLoading THEN "false" ELSE "none"
            /\ UNCHANGED pendingLoads
    /\ GameEffect(TRUE, isLoading)
    /\ lastOp' = "other"
    /\ UNCHANGED <<animVars, editVars, saveVars, mounted, catalog, plan, isLoading, keys>>

\* React commits the isLoading value queued by the loading effect.
CommitLoading ==
    /\ mounted = "GamePlayground"
    /\ queuedLoading # "none"
    /\ queuedLoading' = "none"
    /\ isLoading' = (queuedLoading # "false")
    /\ GameEffect(gameOpen, queuedLoading # "false")
    /\ lastOp' = "other"
    /\ UNCHANGED <<animVars, editVars, saveVars, mounted, catalog, plan, gameOpen, pendingLoads,
                   keys, player, assets, meta>>

\* loadGameAssets after its awaits: the slots are filled and the finally
\* block calls setIsLoading(false), which re-renders when it changes the flag.
LoadDone ==
    /\ mounted = "GamePlayground"
    /\ pendingLoads > 0
    /\ queuedLoading = "none"
    /\ pendingLoads' = pendingLoads - 1
    /\ assets' = loadedAssets(assets, plan)
    /\ meta' = loadedMeta(assets, meta, plan)
    /\ isLoading' = FALSE
    /\ IF isLoading
       THEN GameEffect(gameOpen, FALSE)
       ELSE UNCHANGED <<raf, gameRequestRef>>
    /\ lastOp' = "loadDone"
    /\ UNCHANGED <<animVars, editVars, saveVars, mounted, catalog, plan, gameOpen, queuedLoading,
                   keys, player>>

\* onClose: isOpen becomes false; the key listeners are removed.
ClosePlayground ==
    /\ mounted = "GamePlayground"
    /\ gameOpen
    /\ queuedLoading = "none"
    /\ gameOpen' = FALSE
    /\ GameEffect(FALSE, isLoading)
    /\ lastOp' = "other"
    /\ UNCHANGED <<animVars, editVars, saveVars, mounted, catalog, plan, isLoading, queuedLoading,
                   pendingLoads, keys, player, assets, meta>>

\* handleKeyDown / handleKeyUp, registered while the preview is open.  The
\* behaviours followed are those in which the keys change while no loop
\* callback is registered.
KeyDown(k) ==
    /\ mounted = "GamePlayground"
    /\ gameOpen
    /\ queuedLoading = "none"
    /\ GameCallbacks = {}
    /\ ~keys[k]
    /\ keys' = [keys EXCEPT ![k] = TRUE]
    /\ lastOp' = "other"
    /\ UNCHANGED <<animVars, editVars, saveVars, mounted, catalog, plan, gameOpen, isLoading,
                   gameRequestRef, queuedLoading, pendingLoads, player,
                   assets, meta, raf>>

KeyUp(k) ==
    /\ mounted = "GamePlayground"
    /\ gameOpen
    /\ queuedLoading = "none"
    /\ GameCallbacks = {}
    /\ keys[k]
    /\ keys' = [keys EXCEPT ![k] = FALSE]
    /\ lastOp' = "other"
    /\ UNCHANGED <<animVars, editVars, saveVars, mounted, catalog, plan, gameOpen, isLoading,
                   gameRequestRef, queuedLoading, pendingLoads, player,
                   assets, meta, raf>>

\* The canvas is in the document while the preview is open and loaded.
canvasMounted == gameOpen /\ ~isLoading

\* One display callback of the browser runs a registered loop(time).  A
\* queued isLoading value is committed within one display frame.
GameTick(cb) ==
    /\ mounted = "GamePlayground"
    /\ cb \in GameCallbacks
    /\ queuedLoading \in {"none", "true"}
    /\ player.x >= Px(WorldLeft)
    /\ player.x <= Px(WorldRight)
    /\ player' = IF canvasMounted
                 THEN gameStep(player, keys, assets, meta) ELSE player
    /\ LET rest == raf \ {cb}
           id == FreshId(rest, {gameRequestRef})
       IN  /\ raf' = rest \cup {GameCallback(id)}
           /\ gameRequestRef' = id
    /\ queuedLoading' = IF queuedLoading = "true" THEN "trueAfterFrame"
                        ELSE queuedLoading
    /\ lastOp' = "gameTick"
    /\ UNCHANGED <<animVars, editVars, saveVars, mounted, catalog, plan, gameOpen, isLoading,
                   pendingLoads, keys, assets, meta>>

NextGame ==
    \/ OpenPlayground
    \/ CommitLoading
    \/ LoadDone
    \/ ClosePlayground
    \/ \E k \in KeyNames : KeyDown(k)
    \/ \E k \in KeyNames : KeyUp(k)
    \/ \E cb \in raf : GameTick(cb)

SpecGame == InitGame /\ [][NextGame]_vars

-----------------------------------------------------------------------------
(* GamePlayground: sessions of loading, with failing decodes and a plan    *)
(* that App replaces between sessions.  No key is pressed.                 *)

\* loadGameAssets when the decode of slot f fires onerror: the catch block
\* logs the rejection and the finally block calls setIsLoading(false).
LoadFailed(f) ==
    /\ mounted = "GamePlayground"
    /\ pendingLoads > 0
    /\ queuedLoading = "none"
    /\ slotPresent(plan, f)
    /\ pendingLoads' = pendingLoads - 1
    /\ assets' = failedAssets(assets, plan, f)
    /\ meta' = failedMeta(meta, plan, f)
    /\ isLoading' = FALSE
    /\ IF isLoading
       THEN GameEffect(gameOpen, FALSE)
       ELSE UNCHANGED <<raf, gameRequestRef>>
    /\ lastOp' = "loadFailed"
    /\ UNCHANGED <<animVars, editVars, saveVars, mounted, catalog, plan, gameOpen, queuedLoading,
                   keys, player>>

\* App calls setPlan while the preview is closed and nothing is loading:
\* the mounted GamePlayground receives another plan prop.
ChangePlan(pl) ==
    /\ mounted = "GamePlayground"
    /\ ~gameOpen
    /\ pendingLoads = 0
    /\ queuedLoading = "none"
    /\ pl # plan
    /\ plan' = pl
    /\ lastOp' = "other"
    /\ UNCHANGED <<animVars, editVars, saveVars, mounted, catalog, gameOpen, isLoading,
                   gameRequestRef, queuedLoading, pendingLoads, keys, player,
                   assets, meta, raf>>

NextLoad ==
    \/ OpenPlayground
    \/ CommitLoading
    \/ LoadDone
    \/ \E f \in {"idle", "run", "jump", "tile"} : LoadFailed(f)
    \/ ClosePlayground
    \/ \E pl \in GamePlans : ChangePlan(pl)
    \/ \E cb \in raf : GameTick(cb)

SpecLoad == InitGame /\ [][NextLoad]_vars

-----------------------------------------------------------------------------
(* EditModal: the pixel editor.  A pixel is <<r, g, b, a>>; the canvas is   *)
(* the row-major sequence of its pixels, CanvasWidth wide.                 *)

\* Width of the edited image, in pixels.
CanvasWidth == 2

\* The rows of the edited image.
CanvasRows == {0, 1}

CanvasHeight == Cardinality(CanvasRows)

Transparent == <<0, 0, 0, 0>>

\* The pixel values the edited images are made of.
PixelColours == {Transparent, <<0, 0, 0, 255>>, <<255, 255, 255, 255>>}

\* The images an asset may hold.
Bitmaps == [1 .. (CanvasWidth * CanvasHeight) -> PixelColours]

\* The colours offered by the colour input.
HexColours == {<<0, 0, 0, 0, 0, 0>>, <<15, 15, 15, 15, 15, 15>>}

Tools == {"brush", "eraser", "bucket", "picker"}

\* Hex to RGBA: parseInt(fillColor.slice(1, 3), 16), ..., a = 255
hexToRgba(h) ==
    <<16 * h[1] + h[2], 16 * h[3] + h[4], 16 * h[5] + h[6], 255>>

\* ((1 << 24) + (r << 16) + (g << 8) + b).toString(16).slice(1)
rgbToHex(px) ==
    <<px[1] \div 16, px[1] % 16, px[2] \div 16, px[2] % 16,
      px[3] \div 16, px[3] % 16>>

\* Array.from(colorSet).slice(0, 20)
PaletteLimit == 20

\* A scan that does not test the alpha channel.
RECURSIVE scanAnyAlpha(_, _, _)
scanAnyAlpha(data, i, colorSet) ==
    IF i > Len(data) THEN colorSet
    ELSE IF \E k \in 1 .. Len(colorSet) : colorSet[k] = rgbToHex(data[i])
         THEN scanAnyAlpha(data, i + 1, colorSet)
         ELSE scanAnyAlpha(data, i + 1, Append(colorSet, rgbToHex(data[i])))

\* The for loop of extractPalette from pixel i on: colorSet is the Set, in
\* insertion order.
RECURSIVE scanPalette(_, _, _)
scanPalette(data, i, colorSet) ==
    IF i > Len(data) THEN colorSet
    ELSE IF data[i][4] > 0
            /\ \A k \in 1 .. Len(colorSet) : colorSet[k] # rgbToHex(data[i])
         THEN scanPalette(data, i + 1, Append(colorSet, rgbToHex(data[i])))
         ELSE scanPalette(data, i + 1, colorSet)

\* slice(0, PaletteLimit)
firstColours(colorSet) ==
    SubSeq(colorSet, 1,
           IF Len(colorSet) < PaletteLimit THEN Len(colorSet)
           ELSE PaletteLimit)

extractPaletteAnyAlpha(data) == firstColours(scanAnyAlpha(data, 1, <<>>))

\* extractPalette over the pixels of the image.
extractPalette(data) == firstColours(scanPalette(data, 1, <<>>))

\* getPixel, as an index of pixels: -1 outside the canvas.
getPixel(px, py) ==
    IF px < 0 \/ py < 0 \/ px >= CanvasWidth \/ py >= CanvasHeight
    THEN -1
    ELSE py * CanvasWidth + px

\* A fill loop that also follows the four diagonal neighbours.
RECURSIVE fillLoopDiagonal(_, _, _, _)
fillLoopDiagonal(data, stack, start, fill) ==
    IF stack = <<>> THEN data
    ELSE LET top == stack[Len(stack)]
             rest == SubSeq(stack, 1, Len(stack) - 1)
             cx == top[1]
             cy == top[2]
             idx == getPixel(cx, cy)
         IN  IF idx # -1 /\ data[idx + 1] = start
             THEN fillLoopDiagonal([data EXCEPT ![idx + 1] = fill],
                           rest \o <<<<cx + 1, cy>>, <<cx - 1, cy>>,
                                     <<cx, cy + 1>>, <<cx, cy - 1>>,
                                     <<cx + 1, cy + 1>>, <<cx - 1, cy - 1>>,
                                     <<cx + 1, cy - 1>>, <<cx - 1, cy + 1>>>>,
                           start, fill)
             ELSE fillLoopDiagonal(data, rest, start, fill)

\* The while loop of floodFill over its explicit stack.
RECURSIVE fillLoop(_, _, _, _)
fillLoop(data, stack, start, fill) ==
    IF stack = <<>> THEN data
    ELSE LET top == stack[Len(stack)]
             rest == SubSeq(stack, 1, Len(stack) - 1)
             cx == top[1]
             cy == top[2]
             idx == getPixel(cx, cy)
         IN  IF idx # -1 /\ data[idx + 1] = start
             THEN fillLoop([data EXCEPT ![idx + 1] = fill],
                           rest \o <<<<cx + 1, cy>>, <<cx - 1, cy>>,
                                     <<cx, cy + 1>>, <<cx, cy - 1>>>>,
                           start, fill)
             ELSE fillLoop(data, rest, start, fill)

\* A fill that clears the region of a start pixel that already has the fill
\* colour, where floodFill returns.
floodFillToggling(data, x, y, fillColor) ==
    LET startIdx == getPixel(x, y)
        fill == hexToRgba(fillColor)
    IN  IF startIdx = -1 THEN data
        ELSE IF data[startIdx + 1] = fill
             THEN fillLoop(data, <<<<x, y>>>>, fill, Transparent)
        ELSE fillLoop(data, <<<<x, y>>>>, data[startIdx + 1], fill)

\* A fill that moves a start coordinate outside the canvas to the nearest
\* pixel of the canvas.
floodFillClamping(data, x, y, fillColor) ==
    LET cx == IF x < 0 THEN 0 ELSE IF x >= CanvasWidth THEN CanvasWidth - 1 ELSE x
        cy == IF y < 0 THEN 0 ELSE IF y >= CanvasHeight THEN CanvasHeight - 1 ELSE y
        fill == hexToRgba(fillColor)
    IN  IF data[getPixel(cx, cy) + 1] = fill THEN data
        ELSE fillLoop(data, <<<<cx, cy>>>>, data[getPixel(cx, cy) + 1], fill)

\* floodFill(x, y, fillColor) on the pixels of the canvas.  Outside the
\* canvas the start colour read is no pixel value and nothing matches it.
floodFill(data, x, y, fillColor) ==
    LET startIdx == getPixel(x, y)
        fill == hexToRgba(fillColor)
    IN  IF startIdx = -1 THEN data
        ELSE IF data[startIdx + 1] = fill THEN data
        ELSE fillLoop(data, <<<<x, y>>>>, data[startIdx + 1], fill)

\* The while loop of floodFill with its bookkeeping: the number of pops and
\* the pixels recoloured, in order.
RECURSIVE fillRun(_, _, _, _, _, _)
fillRun(data, stack, start, fill, pops, recoloured) ==
    IF stack = <<>>
    THEN [data |-> data, pops |-> pops, recoloured |-> recoloured]
    ELSE LET top == stack[Len(stack)]
             rest == SubSeq(stack, 1, Len(stack) - 1)
             cx == top[1]
             cy == top[2]
             idx == getPixel(cx, cy)
         IN  IF idx # -1 /\ data[idx + 1] = start
             THEN fillRun([data EXCEPT ![idx + 1] = fill],
                          rest \o <<<<cx + 1, cy>>, <<cx - 1, cy>>,
                                    <<cx, cy + 1>>, <<cx, cy - 1>>>>,
                          start, fill, pops + 1, Append(recoloured, idx))
             ELSE fillRun(data, rest, start, fill, pops + 1, recoloured)

\* floodFill(x, y, fillColor) with the bookkeeping of its loop.  Outside the
\* canvas the one coordinate of the stack is popped and matches nothing.
floodFillRun(data, x, y, fillColor) ==
    LET startIdx == getPixel(x, y)
        fill == hexToRgba(fillColor)
    IN  IF startIdx = -1
        THEN [data |-> data, pops |-> 1, recoloured |-> <<>>]
        ELSE IF data[startIdx + 1] = fill
             THEN [data |-> data, pops |-> 0, recoloured |-> <<>>]
        ELSE fillRun(data, <<<<x, y>>>>, data[startIdx + 1], fill, 0, <<>>)

\* A brush and an eraser that cover the row from its start to the pixel.
paintPixelFromRowStart(data, x, y, t, c) ==
    [k \in 1 .. Len(data) |->
        IF k - 1 \in (y * CanvasWidth) .. getPixel(x, y)
        THEN IF t = "eraser" THEN Transparent ELSE hexToRgba(c)
        ELSE data[k]]

\* drawPixel with the eraser or the brush: clearRect / fillRect of 1 x 1.
paintPixel(data, x, y, t, c) ==
    [data EXCEPT ![getPixel(x, y) + 1] =
        IF t = "eraser" THEN Transparent ELSE hexToRgba(c)]

\* A picker that also paints the pixel it reads.
drawnCanvasPickerPaints(data, x, y, t, c) ==
    IF t = "bucket" THEN floodFill(data, x, y, c)
    ELSE paintPixel(data, x, y, t, c)

\* The canvas after drawPixel(x, y).
drawnCanvas(data, x, y, t, c) ==
    IF t = "picker" THEN data
    ELSE IF t = "bucket" THEN floodFill(data, x, y, c)
    ELSE paintPixel(data, x, y, t, c)

\* EditModal is mounted by the first edit request; nothing is open.  A
\* click outside the canvas comes after the pointer was released on the
\* canvas or left it, that is with isDrawing false.
InitEdit ==
    /\ mounted = "EditModal"
    /\ EditConstructed
    /\ raf = {}
    /\ lastOp = "init"
    /\ catalog = {}
    /\ asset = "a1"
    /\ animOpen = FALSE
    /\ frames = <<>>
    /\ selectedFrameIdx = 0
    /\ fps = 8
    /\ isPlaying = TRUE
    /\ elapsed = -1
    /\ animRequestRef = 0
    /\ pendingInit = {}
    /\ canvasFrame = -1
    /\ sheet = <<>>
    /\ masterStyleImage = ConceptArt
    /\ NothingSaved
    /\ GameUnused

\* App: the edit button opens the modal.  In MANUAL mode the canvas is
\* mounted blank and the load effect starts decoding the asset's image.
OpenEditor ==
    /\ mounted = "EditModal"
    /\ ~editOpen
    /\ editOpen' = TRUE
    /\ editLoading' = (mode = "MANUAL")
    /\ canvas' = <<>>
    /\ lastOp' = "other"
    /\ UNCHANGED <<animVars, gameVars, saveVars, mounted, catalog, raf, palette, mode, tool,
                   color, isDrawing>>

\* The AI GENERATION / PIXEL EDITOR tabs: the canvas is mounted anew in
\* MANUAL mode and the load effect runs again.
SetMode(m) ==
    /\ mounted = "EditModal"
    /\ ~isDrawing
    /\ editOpen
    /\ m # mode
    /\ mode' = m
    /\ editLoading' = (m = "MANUAL")
    /\ canvas' = <<>>
    /\ lastOp' = "other"
    /\ UNCHANGED <<animVars, gameVars, saveVars, mounted, catalog, raf, palette, editOpen, tool,
                   color, isDrawing>>

\* img.onload of the load effect: the canvas takes the image's size and
\* pixels, and the palette is extracted from them.
ImageLoaded(b) ==
    /\ mounted = "EditModal"
    /\ editLoading
    /\ editLoading' = FALSE
    /\ canvas' = b
    /\ palette' = extractPalette(b)
    /\ lastOp' = "imageLoaded"
    /\ UNCHANGED <<animVars, gameVars, saveVars, mounted, catalog, raf, editOpen, mode,
                   tool, color, isDrawing>>

\* onClose: the modal renders nothing, the canvas leaves the document.
CloseEditor ==
    /\ mounted = "EditModal"
    /\ ~isDrawing
    /\ editOpen
    /\ editOpen' = FALSE
    /\ editLoading' = FALSE
    /\ canvas' = <<>>
    /\ lastOp' = "other"
    /\ UNCHANGED <<animVars, gameVars, saveVars, mounted, catalog, raf, palette, mode, tool,
                   color, isDrawing>>

\* The tool buttons.
SetTool(t) ==
    /\ mounted = "EditModal"
    /\ editOpen
    /\ ~isDrawing
    /\ mode = "MANUAL"
    /\ t # tool
    /\ tool' = t
    /\ lastOp' = "other"
    /\ UNCHANGED <<animVars, gameVars, saveVars, mounted, catalog, raf, palette, editOpen, mode,
                   editLoading, canvas, color, isDrawing>>

\* The colour input, and a click on a swatch of the palette.
SetColor(c) ==
    /\ mounted = "EditModal"
    /\ editOpen
    /\ ~isDrawing
    /\ mode = "MANUAL"
    /\ c # color
    /\ color' = c
    /\ lastOp' = "other"
    /\ UNCHANGED <<animVars, gameVars, saveVars, mounted, catalog, raf, palette, editOpen, mode,
                   editLoading, canvas, tool, isDrawing>>

\* handleMouseDown on pixel (x, y) of a canvas that holds its image.
MouseDown(x, y) ==
    /\ mounted = "EditModal"
    /\ canvas # <<>>
    /\ getPixel(x, y) # -1
    /\ isDrawing' = TRUE
    /\ canvas' = drawnCanvas(canvas, x, y, tool, color)
    /\ color' = IF tool = "picker"
                THEN rgbToHex(canvas[getPixel(x, y) + 1]) ELSE color
    /\ tool' = IF tool = "picker" THEN "brush" ELSE tool
    /\ lastOp' = tool
    /\ UNCHANGED <<animVars, gameVars, saveVars, mounted, catalog, raf, palette, editOpen, mode,
                   editLoading>>

\* handleMouseMove on pixel (x, y): a drag sample of the brush or eraser.
MouseMove(x, y) ==
    /\ mounted = "EditModal"
    /\ canvas # <<>>
    /\ getPixel(x, y) # -1
    /\ isDrawing
    /\ tool \notin {"bucket", "picker"}
    /\ canvas' = drawnCanvas(canvas, x, y, tool, color)
    /\ lastOp' = "move"
    /\ UNCHANGED <<animVars, gameVars, saveVars, mounted, catalog, raf, palette, editOpen, mode,
                   editLoading, tool, color, isDrawing>>

\* onMouseUp and onMouseLeave: setIsDrawing(false)
MouseUp ==
    /\ mounted = "EditModal"
    /\ canvas # <<>>
    /\ isDrawing
    /\ isDrawing' = FALSE
    /\ lastOp' = "other"
    /\ UNCHANGED <<animVars, gameVars, saveVars, mounted, catalog, raf, palette, editOpen, mode,
                   editLoading, canvas, tool, color>>

NextEdit ==
    \/ OpenEditor
    \/ \E m \in {"AI", "MANUAL"} : SetMode(m)
    \/ \E b \in Bitmaps : ImageLoaded(b)
    \/ CloseEditor
    \/ \E t \in Tools : SetTool(t)
    \/ \E c \in HexColours \cup {palette[k] : k \in DOMAIN palette} :
           SetColor(c)
    \/ \E x \in 0 .. (CanvasWidth - 1), y \in CanvasRows : MouseDown(x, y)
    \/ \E x \in 0 .. (CanvasWidth - 1), y \in CanvasRows : MouseMove(x, y)
    \/ MouseUp

SpecEdit == InitEdit /\ [][NextEdit]_vars

\* floodFill as a function of the buffer, the start coordinate and the fill
\* colour: the editor holds some image, and floodFill is called with a
\* coordinate on the canvas or one step outside it.
InitFill ==
    /\ mounted = "EditModal"
    /\ editOpen = TRUE
    /\ mode = "MANUAL"
    /\ editLoading = FALSE
    /\ canvas \in Bitmaps
    /\ tool = "bucket"
    /\ color \in HexColours
    /\ isDrawing = FALSE
    /\ palette = <<>>
    /\ raf = {}
    /\ lastOp = "init"
    /\ AnimUnused
    /\ GameUnused

FillAt(x, y, fillColor) ==
    /\ mounted = "EditModal"
    /\ canvas # <<>>
    /\ color' = fillColor
    /\ lastOp' = IF getPixel(x, y) = -1 THEN "fillOutside" ELSE "fill"
    /\ canvas' = floodFill(canvas, x, y, fillColor)
    /\ UNCHANGED <<animVars, gameVars, saveVars, mounted, catalog, raf, palette, editOpen, mode,
                   editLoading, tool, isDrawing>>

NextFill ==
    \E x \in -1 .. CanvasWidth, y \in -1 .. CanvasHeight, c \in HexColours :
        FillAt(x, y, c)

SpecFill == InitFill /\ [][NextFill]_vars

\* Pixel values of the images the palette is extracted from: opaque,
\* half transparent, and of alpha 0 with and without colour.
PalettePixels ==
    {Transparent, <<255, 255, 255, 0>>, <<255, 0, 0, 255>>, <<255, 0, 0, 128>>,
     <<255, 255, 255, 255>>, <<0, 0, 0, 255>>}

\* An image of more distinct colours than the palette holds.
GreyRamp == [k \in 1 .. (PaletteLimit + 2) |-> <<k, k, k, 255>>]

\* The images the palette is extracted from: four pixels each, and the ramp.
PaletteImages == [1 .. 4 -> PalettePixels] \cup {GreyRamp}

\* The editor is open in MANUAL mode and the decode of the image is pending.
InitPalette ==
    /\ mounted = "EditModal"
    /\ editOpen = TRUE
    /\ mode = "MANUAL"
    /\ editLoading = TRUE
    /\ canvas = <<>>
    /\ tool = "brush"
    /\ color = <<15, 15, 15, 15, 15, 15>>
    /\ isDrawing = FALSE
    /\ palette = <<>>
    /\ raf = {}
    /\ lastOp = "init"
    /\ AnimUnused
    /\ GameUnused

\* The decode completes on any of the images.
NextPalette == \E b \in PaletteImages : ImageLoaded(b)

SpecPalette == InitPalette /\ [][NextPalette]_vars

-----------------------------------------------------------------------------
(* App: the plan's assets under handleSaveAsset.                           *)

\* The ids of the plan's assets.
PlanAssets == {"a1", "a2"}

\* The images an asset holds or is handed: strips one and two columns wide.
PlanImages == {Strip(a, w) : a \in PlanAssets, w \in {1, 2}}

\* metadata.frames of an asset, 0 when it is undefined.
PlanFrames == {0, 1, 2}

PlanStatuses == {"generating", "done", "error"}

\* The frame count argument of onSave: absent, or a timeline length.
FrameCountArgs == {<<>>, <<1>>, <<3>>}

\* A plan exists; each asset holds some image, frame count and status, and
\* the master style image is the concept art or the image of an asset.
InitApp ==
    /\ mounted = "App"
    /\ catalog = PlanAssets
    /\ sheet \in [PlanAssets ->
                    [strip : PlanImages, frames : PlanFrames,
                     status : PlanStatuses]]
    /\ masterStyleImage \in {ConceptArt} \cup {sheet[a].strip : a \in PlanAssets}
    /\ NothingSaved
    /\ asset = "a1"
    /\ animOpen = FALSE
    /\ frames = <<>>
    /\ selectedFrameIdx = 0
    /\ fps = 8
    /\ isPlaying = TRUE
    /\ elapsed = -1
    /\ animRequestRef = 0
    /\ pendingInit = {}
    /\ canvasFrame = -1
    /\ raf = {}
    /\ lastOp = "init"
    /\ GameUnused
    /\ EditConstructed

\* handleSaveAsset(assetId, newImageUrl, newFrameCount?), called as onSave
\* by the timeline editor and as onSaveManual by the pixel editor.
SaveAsset(assetId, newImageUrl, newFrameCount) ==
    /\ mounted = "App"
    /\ sheet' = handleSaveAsset(sheet, assetId, newImageUrl, newFrameCount)
    /\ masterStyleImage' =
           savedMaster(sheet, masterStyleImage, assetId, newImageUrl)
    /\ lastOp' = "saveAsset"
    /\ UNCHANGED <<animVars, gameVars, editVars, pendingSaves, onSaveCalls,
                   batch, mounted, catalog, raf>>

NextApp ==
    \E assetId \in PlanAssets, newImageUrl \in PlanImages,
       newFrameCount \in FrameCountArgs :
        SaveAsset(assetId, newImageUrl, newFrameCount)

SpecApp == InitApp /\ [][NextApp]_vars

\* The plan after the concept phase: the concept asset a1 is done and its
\* image is the master style image, a2 is pending without an image.
InitBatch ==
    /\ mounted = "App"
    /\ catalog = PlanAssets
    /\ \E f1, f2 \in PlanFrames :
           sheet = [a \in PlanAssets |->
                       IF a = "a1"
                       THEN [strip |-> Strip(a, 1), frames |-> f1,
                             status |-> "done"]
                       ELSE [strip |-> <<>>, frames |-> f2,
                             status |-> "pending"]]
    /\ masterStyleImage = Strip("a1", 1)
    /\ NothingSaved
    /\ asset = "a1"
    /\ animOpen = FALSE
    /\ frames = <<>>
    /\ selectedFrameIdx = 0
    /\ fps = 8
    /\ isPlaying = TRUE
    /\ elapsed = -1
    /\ animRequestRef = 0
    /\ pendingInit = {}
    /\ canvasFrame = -1
    /\ raf = {}
    /\ lastOp = "init"
    /\ GameUnused
    /\ EditConstructed

\* approveAndGenerateRest up to its first await: newAssets is a copy of the
\* plan's array of assets, the first asset that is not done is marked
\* generating and setPlan({ ...plan, assets: [...newAssets] }) is called.
\* The assets are visited in the order of the array, a1 before a2.
BatchStart ==
    /\ mounted = "App"
    /\ batch = <<>>
    /\ \E a \in PlanAssets : sheet[a].status # "done"
    /\ LET cur == IF sheet["a1"].status # "done" THEN "a1" ELSE "a2"
           newAssets == [sheet EXCEPT ![cur].status = "generating"]
       IN  /\ sheet' = newAssets
           /\ batch' = <<[assets |-> newAssets, master |-> masterStyleImage,
                          cur |-> cur]>>
    /\ lastOp' = "batchStart"
    /\ UNCHANGED <<animVars, gameVars, editVars, masterStyleImage,
                   pendingSaves, onSaveCalls, mounted, catalog, raf>>

\* approveAndGenerateRest from the completion of generateAssetImage to the
\* next await or the end of the loop: the asset of newAssets gets its image
\* and status done, or status error, and setPlan is called with the plan the
\* call closed over and newAssets; the next asset that is not done is
\* marked generating and setPlan is called again.
BatchStep(ok) ==
    /\ mounted = "App"
    /\ batch # <<>>
    /\ LET b == batch[1]
           generated ==
               [b.assets EXCEPT ![b.cur] =
                   IF ok THEN [@ EXCEPT !.strip = Strip(b.cur, 2),
                                        !.status = "done"]
                   ELSE [@ EXCEPT !.status = "error"]]
           more == b.cur = "a1" /\ generated["a2"].status # "done"
           newAssets == IF more
                        THEN [generated EXCEPT !["a2"].status = "generating"]
                        ELSE generated
       IN  /\ sheet' = newAssets
           /\ masterStyleImage' = b.master
           /\ batch' = IF more
                       THEN <<[assets |-> newAssets, master |-> b.master,
                               cur |-> "a2"]>>
                       ELSE <<>>
    /\ lastOp' = "batchStep"
    /\ UNCHANGED <<animVars, gameVars, editVars, pendingSaves, onSaveCalls,
                   mounted, catalog, raf>>

NextBatch ==
    \/ BatchStart
    \/ \E ok \in BOOLEAN : BatchStep(ok)
    \/ \E assetId \in PlanAssets, newImageUrl \in PlanImages,
          newFrameCount \in FrameCountArgs :
           SaveAsset(assetId, newImageUrl, newFrameCount)

SpecBatch == InitBatch /\ [][NextBatch]_vars

\* Either component, each from its construction.
Init == InitAnim \/ InitGame

Next == NextAnim \/ NextGame

Spec == Init /\ [][Next]_vars

-----------------------------------------------------------------------------
(* Properties of the timeline editor and of the two loops.                 *)

EditOps == {"moveFrame", "deleteFrame", "duplicateFrame"}

AnimTickOps == {"tickWait", "tickAdvance", "tickPin"}

\* The frame a paused loop is to show: the selection when it is an index of
\* the timeline, frame 0 otherwise.
Pinned(sel, fr) == IF sel >= 0 /\ sel <= Len(fr) - 1 THEN sel ELSE 0

\* The movement state the physics state calls for.
derivedState(p) ==
    IF p.grounded = FALSE THEN "jump"
    ELSE IF 2 * Abs(p.vx) > 5 THEN "run" ELSE "idle"

\* C1: a timeline that holds at least one frame still holds at least one
\* after any step, whatever deleteFrame, moveFrame and duplicateFrame calls
\* are made at whatever index; a deleteFrame call on a timeline of length 1
\* changes neither the frames nor the selection.
C1_TimelineNeverEmpty ==
    [][ /\ Len(frames) >= 1 => Len(frames') >= 1
        /\ (Len(frames) = 1 /\ lastOp' \in {"deleteFrame", "deleteRefused"})
              => (frames' = frames /\ selectedFrameIdx' = selectedFrameIdx)
      ]_vars

\* A deleteFrame call was just refused on a timeline of length 1.
C1_Witness == lastOp = "deleteRefused" /\ Len(frames) = 1

\* C2: right after a moveFrame, deleteFrame or duplicateFrame that edited
\* the timeline, 0 <= selectedFrameIdx < frames.length.
C2_SelectionInRange ==
    lastOp \in EditOps =>
        (selectedFrameIdx >= 0 /\ selectedFrameIdx < Len(frames))

\* A deleteFrame has just removed a frame and the selection is the last
\* index of the shortened timeline.
C2_Witness ==
    /\ lastOp = "deleteFrame"
    /\ Len(frames) = MaxLen - 1
    /\ selectedFrameIdx = Len(frames) - 1

\* C3: after every tick of the runtime preview that draws the player sprite,
\* frameIndex is below the frame count of the movement state of that tick.
C3_FrameIndexInRange ==
    (lastOp = "gameTick" /\ currentImg(player, assets) # "null") =>
        (player.frameIndex >= 0 /\
         player.frameIndex < totalFrames(player, meta))

\* C4: in every state, playing or paused, the playback loop runs on the
\* current timeline and its frame index, the only index it draws, is an
\* index of that timeline.
C4_DisplayedIndexInRange ==
    \A cb \in AnimCallbacks :
        /\ cb.frames = frames
        /\ cb.currentFrame >= 0
        /\ cb.currentFrame < Len(frames)

\* The loop plays a timeline grown to MaxLen by edits and stands at its
\* last index.
C4_Witness ==
    /\ lastOp = "tickAdvance"
    /\ Len(frames) = MaxLen
    /\ \E cb \in AnimCallbacks : cb.currentFrame = MaxLen - 1
    /\ canvasFrame = MaxLen - 1

\* C5: after every tick of the runtime preview, state is the movement state
\* that grounded and vx of the same tick call for.
C5_StateDerivedFromPhysics ==
    lastOp = "gameTick" => player.state = derivedState(player)

\* C6: in the runtime preview 8 ticks pass between two consecutive advances
\* of frameIndex: the count of ticks since the last advance never ends a
\* tick at 8.
C6_AdvanceEvery8Ticks ==
    (lastOp = "gameTick" /\ currentImg(player, assets) # "null") =>
        player.frameTimer < 8

\* C7: while playing, a tick at which the time since the last advance has
\* reached 1000 / fps ms advances the frame: a tick that did not advance
\* ends with less than 1000 / fps ms elapsed.
C7_AdvanceAtInterval ==
    (lastOp = "tickWait" /\ isPlaying) => elapsed * fps < 1000

\* C8: while paused, an advance point leaves the loop's frame index at the
\* selection when that is an index of the timeline and at 0 otherwise, and
\* as long as the pause, the selection and the frames last the canvas shows
\* no frame but the one it showed or that one.
C8_PausedPinsSelection ==
    [][ /\ lastOp' = "tickPin" =>
              /\ \A cb \in {c \in raf' : c.comp = "anim"} :
                    cb.currentFrame = Pinned(selectedFrameIdx, frames)
              /\ canvasFrame' \in
                    {canvasFrame, Pinned(selectedFrameIdx, frames)}
        /\ (~isPlaying /\ ~isPlaying' /\ frames' = frames
               /\ selectedFrameIdx' = selectedFrameIdx)
              => canvasFrame' \in
                    {canvasFrame, Pinned(selectedFrameIdx, frames), -1}
      ]_vars

\* A paused advance point found the selection beyond the timeline and drew
\* frame 0.
C8_Witness ==
    /\ lastOp = "tickPin"
    /\ ~isPlaying
    /\ selectedFrameIdx >= Len(frames)
    /\ canvasFrame = 0

\* C9: while a component is closed none of its callbacks is registered and
\* none of its ticks runs.
C9_NoCallbackAfterClose ==
    [][ /\ ~animOpen' => AnimCallbacks' = {}
        /\ ~gameOpen' => GameCallbacks' = {}
        /\ ~animOpen => lastOp' \notin AnimTickOps
        /\ ~gameOpen => lastOp' # "gameTick"
      ]_vars

\* The timeline editor is closed after a session in which its loop ran, the
\* timeline was edited, the rate changed and playback was paused.
C9_Witness ==
    /\ mounted = "AnimationModal"
    /\ ~animOpen
    /\ animRequestRef # 0
    /\ Len(frames) = MaxLen
    /\ fps # 8
    /\ ~isPlaying

\* C10: in every state each component has at most one callback registered.
C10_AtMostOneCallback ==
    /\ Cardinality(AnimCallbacks) <= 1
    /\ Cardinality(GameCallbacks) <= 1

\* The runtime preview was reopened with isLoading still false, its loop
\* restarted and ran a frame before the loading flag was committed.
C10_Witness ==
    /\ mounted = "GamePlayground"
    /\ queuedLoading = "trueAfterFrame"
    /\ Cardinality(GameCallbacks) = 1

\* The two directions of moveFrame.
Directions == {-1, 1}

\* fr2 is fr with elements i and j exchanged and every other element in
\* place.
IsSwap(fr, fr2, i, j) ==
    /\ Len(fr2) = Len(fr)
    /\ fr2[i + 1] = fr[j + 1]
    /\ fr2[j + 1] = fr[i + 1]
    /\ \A k \in 1 .. Len(fr) : (k # i + 1 /\ k # j + 1) => fr2[k] = fr[k]

\* fr2 is fr without element i, the others in their order.
IsRemoval(fr, fr2, i) ==
    /\ Len(fr2) = Len(fr) - 1
    /\ \A k \in 1 .. Len(fr2) : fr2[k] = IF k <= i THEN fr[k] ELSE fr[k + 1]

\* fr2 is fr with a copy of element i inserted at index i + 1.
IsDuplication(fr, fr2, i) ==
    /\ Len(fr2) = Len(fr) + 1
    /\ \A k \in 1 .. (i + 1) : fr2[k] = fr[k]
    /\ fr2[i + 2] = fr[i + 1]
    /\ \A k \in (i + 3) .. Len(fr2) : fr2[k] = fr[k - 1]

\* C17: every moveFrame(i, d) that edits the timeline can be undone: the
\* call moveFrame(i + d, -d) on its result is in bounds, restores the frame
\* order and leaves the selection at i.
C17_MoveThenMoveBack ==
    [][ lastOp' = "moveFrame" =>
          \A i \in Indices(frames), d \in Directions :
              (/\ i + d \in Indices(frames)
               /\ frames' = moveFrames(frames, i, d)
               /\ selectedFrameIdx' = i + d)
              => /\ ~moveRefused(frames', i + d, -d)
                 /\ moveFrames(frames', i + d, -d) = frames
                 /\ moveSelection(i + d, -d) = i
      ]_vars

\* A moveFrame has just exchanged two different frames of a timeline of
\* length MaxLen.
C17_Witness ==
    /\ lastOp = "moveFrame"
    /\ Len(frames) = MaxLen
    /\ selectedFrameIdx > 0
    /\ Nth(frames, selectedFrameIdx) # Nth(frames, selectedFrameIdx - 1)

\* C18: on every timeline, moveFrame(i, d) is refused exactly when i + d is
\* out of bounds; in bounds it exchanges elements i and i + d, leaves the
\* others in place and selects i + d; a refused call changes neither the
\* frames nor the selection nor the loop.
C18_MoveSwapsOrRefuses ==
    [][ /\ \A i \in Indices(frames), d \in Directions :
              /\ moveRefused(frames, i, d) =
                     (i + d < 0 \/ i + d > Len(frames) - 1)
              /\ ~moveRefused(frames, i, d) =>
                     /\ IsSwap(frames, moveFrames(frames, i, d), i, i + d)
                     /\ moveSelection(i, d) = i + d
        /\ lastOp' = "moveFrame" =>
              \E i \in Indices(frames), d \in Directions :
                  /\ i + d \in Indices(frames)
                  /\ IsSwap(frames, frames', i, i + d)
                  /\ selectedFrameIdx' = i + d
        /\ lastOp' = "moveRefused" =>
              /\ frames' = frames
              /\ selectedFrameIdx' = selectedFrameIdx
              /\ raf' = raf
      ]_vars

\* A moveFrame call past the end of a timeline of two or more frames was
\* refused.
C18_Witness ==
    /\ lastOp = "moveRefused"
    /\ Len(frames) >= 2
    /\ selectedFrameIdx = Len(frames) - 1

\* C19: on every timeline of two or more frames deleteFrame(i) removes
\* element i and keeps the others in their order; the selection becomes the
\* new last index when it was past the end of the shortened timeline and is
\* unchanged otherwise.
C19_DeleteRemovesOne ==
    [][ /\ Len(frames) >= 2 =>
              \A i \in Indices(frames) :
                  /\ ~deleteRefused(frames)
                  /\ IsRemoval(frames, deleteFrames(frames, i), i)
        /\ lastOp' = "deleteFrame" =>
              /\ Len(frames) >= 2
              /\ \E i \in Indices(frames) : IsRemoval(frames, frames', i)
              /\ selectedFrameIdx' =
                     IF selectedFrameIdx > Len(frames') - 1
                     THEN Len(frames') - 1 ELSE selectedFrameIdx
      ]_vars

\* A deleteFrame has just shortened a timeline of MaxLen frames whose last
\* frame was selected.
C19_Witness ==
    /\ lastOp = "deleteFrame"
    /\ Len(frames) = MaxLen - 1
    /\ selectedFrameIdx = MaxLen - 2
    /\ Nth(frames, 0) # Nth(frames, selectedFrameIdx)

\* C20: on every timeline duplicateFrame(i) lengthens the timeline by one,
\* with a copy of element i at index i + 1, elements 0..i in place and the
\* later ones one index further; it selects i + 1.
C20_DuplicateInsertsCopy ==
    [][ /\ \A i \in Indices(frames) :
              IsDuplication(frames, duplicateFrames(frames, i), i)
        /\ lastOp' = "duplicateFrame" =>
              \E i \in Indices(frames) :
                  /\ IsDuplication(frames, frames', i)
                  /\ selectedFrameIdx' = i + 1
      ]_vars

\* A duplicateFrame has just inserted a copy in front of a different frame.
C20_Witness ==
    /\ lastOp = "duplicateFrame"
    /\ Len(frames) = MaxLen
    /\ selectedFrameIdx = 1
    /\ Nth(frames, 0) = Nth(frames, 1)
    /\ Nth(frames, 2) # Nth(frames, 1)

\* Pixels i and j (indices of the row-major sequence) share an edge.
Adjacent(i, j) ==
    LET xi == (i - 1) % CanvasWidth
        yi == (i - 1) \div CanvasWidth
        xj == (j - 1) % CanvasWidth
        yj == (j - 1) \div CanvasWidth
    IN  \/ (yi = yj /\ (xi - xj = 1 \/ xj - xi = 1))
        \/ (xi = xj /\ (yi - yj = 1 \/ yj - yi = 1))

\* The pixels joined to pixel s by a path of edge-sharing pixels that all
\* have the colour of s.
RECURSIVE Grow(_, _, _)
Grow(data, s, R) ==
    LET R2 == R \cup {j \in DOMAIN data :
                        data[j] = data[s] /\ \E i \in R : Adjacent(i, j)}
    IN  IF R2 = R THEN R ELSE Grow(data, s, R2)

Region(data, s) == Grow(data, s, {s})

\* The RGBA value of a hex colour: two digits per channel, opaque.
Opaque(h) == <<h[1] * 16 + h[2], h[3] * 16 + h[4], h[5] * 16 + h[6], 255>>

\* C11: on every canvas, for every start pixel the bucket can hit and every
\* active colour other than the start pixel's colour, floodFill gives the fill colour to the pixels
\* of the start pixel's 4-connected region of equal RGBA and leaves every
\* other pixel as it was.
C11_FillsConnectedRegion ==
    (canvas # <<>> /\ tool = "bucket") =>
        \A x \in 0 .. (CanvasWidth - 1), y \in CanvasRows :
            LET s == y * CanvasWidth + x + 1
            IN  canvas[s] # Opaque(color) =>
                    floodFill(canvas, x, y, color) =
                        [j \in DOMAIN canvas |->
                            IF j \in Region(canvas, s)
                            THEN Opaque(color) ELSE canvas[j]]

\* A bucket click has filled pixel (0, 0) with white; the black pixel
\* (1, 1), which touches it by a corner only, is still black.
C11_Witness ==
    /\ lastOp = "bucket"
    /\ color = <<15, 15, 15, 15, 15, 15>>
    /\ canvas # <<>>
    /\ canvas[1] = <<255, 255, 255, 255>>
    /\ canvas[2] = Transparent
    /\ canvas[CanvasWidth + 1] = Transparent
    /\ canvas[CanvasWidth + 2] = <<0, 0, 0, 255>>

\* C12: on every canvas, for every start pixel the bucket can hit and every
\* active colour, floodFill applied to its own result with the same arguments changes nothing more,
\* and floodFill on a start pixel that has the fill colour changes nothing.
C12_FillIdempotent ==
    (canvas # <<>> /\ tool = "bucket") =>
        \A x \in 0 .. (CanvasWidth - 1), y \in CanvasRows :
            LET once == floodFill(canvas, x, y, color)
            IN  /\ floodFill(once, x, y, color) = once
                /\ canvas[y * CanvasWidth + x + 1] = Opaque(color) =>
                       once = canvas

\* A bucket click on a canvas that has the fill colour everywhere.
C12_Witness ==
    /\ lastOp = "bucket"
    /\ isDrawing
    /\ canvas # <<>>
    /\ \A j \in DOMAIN canvas : canvas[j] = Opaque(color)

-----------------------------------------------------------------------------
(* Properties of slicing and saving.                                       *)

\* Widths and frame counts on which slicing and stitching are compared as
\* functions.
SliceWidths == 0 .. 7

SliceCounts == 1 .. 3

\* floor(w / c), spelled by its definition.
FloorDiv(w, c) == CHOOSE n \in 0 .. w : n * c <= w /\ (n + 1) * c > w

\* The c frames of a strip: frame i (0-based) holds, column for column, the
\* FloorDiv(W, c) columns of the strip that start at column i * FloorDiv(W, c).
IsSlicing(fr, strip, c) ==
    /\ Len(fr) = c
    /\ \A i \in 0 .. (c - 1) :
          /\ Len(Nth(fr, i)) = FloorDiv(Len(strip), c)
          /\ \A j \in 1 .. FloorDiv(Len(strip), c) :
                Nth(fr, i)[j] = strip[i * FloorDiv(Len(strip), c) + j]

\* Columns of the strip that appear in some frame.
ColumnsUsed(fr) == {Nth(fr, i)[j] : i \in Indices(fr), j \in 1 .. Len(fr[1])}

\* The W mod c rightmost columns of the strip.
Remainder(strip, c) ==
    {strip[k] : k \in (FloorDiv(Len(strip), c) * c + 1) .. Len(strip)}

\* C13: for every strip width W and declared frame count c >= 1, slicing
\* yields exactly c frames, each floor(W/c) wide, frame i being the copy of
\* the strip from column i*floor(W/c) on, and the W mod c rightmost columns
\* appear in no frame: as a function, and for the timeline that the decode
\* of an opened strip commits.
C13_SliceYieldsFrames ==
    [][lastOp' = "initDecoded" =>
        /\ \A w \in SliceWidths, c \in SliceCounts :
              LET sh == [strip |-> Strip("a1", w), frames |-> c]
              IN  /\ IsSlicing(Slice(sh), sh.strip, c)
                  /\ ColumnsUsed(Slice(sh)) \cap Remainder(sh.strip, c) = {}
        /\ \E sh \in pendingInit :
              /\ pendingInit' = pendingInit \ {sh}
              /\ IsSlicing(frames', sh.strip, sh.frames)
              /\ ColumnsUsed(frames') \cap Remainder(sh.strip, sh.frames)
                    = {}]_vars

\* A strip five columns wide has just been sliced into two frames, two
\* columns each, the fifth column left out.
C13_Witness ==
    /\ lastOp = "initDecoded"
    /\ mounted = "AnimationModal"
    /\ Len(sheet[asset].strip) = 5
    /\ Len(frames) = 2
    /\ Len(frames[1]) = 2

\* The strip without its W mod c rightmost columns.
Truncated(strip, c) == SubSeq(strip, 1, FloorDiv(Len(strip), c) * c)

\* C14: round trip: for every strip width W and frame count c >= 1, a save
\* of the timeline as sliced (no edits) produces a strip: the save that was
\* started can complete.
C14_SlicedTimelineSaves ==
    \A sv \in BagToSet(pendingSaves) :
        IsSlicing(sv.frames, sheet[sv.id].strip, sheet[sv.id].frames)
          => ENABLED SaveDone(sv)

\* C14, for the saves that complete: the strip stored is floor(W/c)*c wide,
\* its columns are the first floor(W/c)*c columns of the source strip, and
\* the frame count is c; as a function, on every strip with at least c
\* columns.
C14_RoundTrip ==
    [][lastOp' = "saveDone" =>
        /\ \A w \in SliceWidths, c \in SliceCounts :
              LET sh == [a \in {"a1"} |->
                            [strip |-> Strip(a, w), frames |-> c]]
              IN  w >= c =>
                    handleSaveAsset(sh, "a1", stitch(Slice(sh["a1"])),
                                    <<Len(Slice(sh["a1"]))>>)["a1"]
                      = [strip |-> Truncated(Strip("a1", w), c), frames |-> c,
                         status |-> "done"]
        /\ \A sv \in BagToSet(pendingSaves) :
              (/\ pendingSaves' = pendingSaves (-) SetToBag({sv})
               /\ IsSlicing(sv.frames, sheet[sv.id].strip,
                            sheet[sv.id].frames))
                 => sheet'[sv.id] =
                      [strip |-> Truncated(sheet[sv.id].strip,
                                           sheet[sv.id].frames),
                       frames |-> sheet[sv.id].frames,
                       status |-> "done"]]_vars

\* The five-column strip was sliced in two and saved unedited: the stored
\* strip is its first four columns, in two frames.
C14_Witness ==
    /\ lastOp = "saveDone"
    /\ onSaveCalls = 1
    /\ sheet[asset] = [strip |-> SubSeq(Strip(asset, 5), 1, 4), frames |-> 2,
                       status |-> "done"]

\* C15: a save that completes stores a strip (first frame's width) *
\* (timeline length) wide in which frame k of the timeline, in its order at
\* the activation of Save, occupies the columns from k * frameWidth on,
\* hands onSave the timeline length as the frame count, and closes the
\* session.
C15_SaveStitchesTimeline ==
    [][lastOp' = "saveDone" =>
        \E sv \in BagToSet(pendingSaves) :
            /\ pendingSaves' = pendingSaves (-) SetToBag({sv})
            /\ Len(sheet'[sv.id].strip) = Len(sv.frames[1]) * Len(sv.frames)
            /\ \A k \in Indices(sv.frames), j \in 1 .. Len(sv.frames[1]) :
                  sheet'[sv.id].strip[k * Len(sv.frames[1]) + j]
                    = Nth(sv.frames, k)[j]
            /\ sheet'[sv.id].frames = Len(sv.frames)
            /\ ~animOpen']_vars

\* A timeline edited to three frames that starts with the strip's second
\* frame has been saved.
C15_Witness ==
    /\ lastOp = "saveDone"
    /\ sheet[asset].frames = 3
    /\ Len(sheet[asset].strip) = 6
    /\ sheet[asset].strip[1] = Strip(asset, 5)[3]

\* C16: within one editing session onSave is invoked at most once, however
\* many times Save is activated before the session closes.
C16_OnSaveAtMostOnce == onSaveCalls <= 1

-----------------------------------------------------------------------------
(* Properties of the pixel editor's palette and tools.                     *)

\* The RGB key of a pixel: its three colour channels.
RgbOf(h) == <<16 * h[1] + h[2], 16 * h[3] + h[4], 16 * h[5] + h[6]>>

\* Position in the row-major scan of the first pixel of non-zero alpha
\* whose colour channels are rgb; 0 when there is none.
FirstAt(data, rgb) ==
    IF \E k \in 1 .. Len(data) :
          data[k][4] # 0 /\ SubSeq(data[k], 1, 3) = rgb
    THEN CHOOSE k \in 1 .. Len(data) :
            /\ data[k][4] # 0 /\ SubSeq(data[k], 1, 3) = rgb
            /\ \A j \in 1 .. (k - 1) :
                  ~(data[j][4] # 0 /\ SubSeq(data[j], 1, 3) = rgb)
    ELSE 0

\* The distinct colours of the pixels of non-zero alpha.
OpaqueColours(data) ==
    {SubSeq(data[k], 1, 3) : k \in {j \in 1 .. Len(data) : data[j][4] # 0}}

\* p lists, without repetition and by first occurrence, the first
\* PaletteLimit colours of the pixels of non-zero alpha.
IsPaletteOf(p, data) ==
    /\ Len(p) = IF Cardinality(OpaqueColours(data)) < PaletteLimit
                THEN Cardinality(OpaqueColours(data)) ELSE PaletteLimit
    /\ \A i \in 1 .. Len(p) :
          /\ RgbOf(p[i]) \in OpaqueColours(data)
          /\ Cardinality({c \in OpaqueColours(data) :
                            FirstAt(data, c) < FirstAt(data, RgbOf(p[i]))})
                = i - 1

\* C21: the palette extracted from an image lists the distinct RGB keys of
\* its pixels with alpha > 0 in the order of their first occurrence in the
\* row-major scan, cut to the first 20; pixels of alpha 0 contribute nothing.
C21_PaletteByFirstOccurrence ==
    lastOp = "imageLoaded" => IsPaletteOf(palette, canvas)

\* An image of exactly three opaque colours after a transparent pixel was
\* loaded, and the palette is those three in scan order.
C21_Witness ==
    /\ lastOp = "imageLoaded"
    /\ canvas = <<Transparent, <<0, 0, 0, 255>>, <<255, 0, 0, 255>>,
                  <<255, 255, 255, 255>>>>
    /\ palette = <<<<0, 0, 0, 0, 0, 0>>, <<15, 15, 0, 0, 0, 0>>,
                   <<15, 15, 15, 15, 15, 15>>>>

\* C28: a pointer-down with the picker tool sets the active colour to the
\* RGB of the hit pixel, switches the tool to brush, and changes no pixel.
C28_PickerReadsPixel ==
    [][\A x \in 0 .. (CanvasWidth - 1), y \in CanvasRows :
          (tool = "picker" /\ MouseDown(x, y)) =>
              /\ RgbOf(color') = SubSeq(canvas[y * CanvasWidth + x + 1], 1, 3)
              /\ tool' = "brush"
              /\ canvas' = canvas]_vars

\* The picker has just read an opaque black pixel while white was active
\* before on a canvas that has both colours.
C28_Witness ==
    /\ lastOp = "picker"
    /\ tool = "brush"
    /\ color = <<0, 0, 0, 0, 0, 0>>
    /\ \E k \in DOMAIN canvas : canvas[k] = <<0, 0, 0, 255>>
    /\ \E k \in DOMAIN canvas : canvas[k] = <<255, 255, 255, 255>>

-----------------------------------------------------------------------------
(* Properties of the plan's assets.                                        *)

\* C30: applying a save changes only the asset with the given id: its image
\* becomes the new one and its status done; its frame count becomes the
\* passed count when one is passed and stays unchanged when none is passed;
\* every other asset is unchanged.
C30_SaveChangesOneAsset ==
    [][\A assetId \in PlanAssets, newImageUrl \in PlanImages,
          newFrameCount \in FrameCountArgs :
          SaveAsset(assetId, newImageUrl, newFrameCount) =>
              /\ DOMAIN sheet' = DOMAIN sheet
              /\ \A a \in DOMAIN sheet \ {assetId} : sheet'[a] = sheet[a]
              /\ sheet'[assetId].strip = newImageUrl
              /\ sheet'[assetId].status = "done"
              /\ Len(newFrameCount) = 1 =>
                    sheet'[assetId].frames = newFrameCount[1]
              /\ Len(newFrameCount) = 0 =>
                    sheet'[assetId].frames = sheet[assetId].frames]_vars

\* A save has given the first asset a new image and three frames and
\* status done while the second asset still holds two frames and status
\* error.
C30_Witness ==
    /\ lastOp = "saveAsset"
    /\ mounted = "App"
    /\ sheet["a1"] = [strip |-> Strip("a2", 2), frames |-> 3, status |-> "done"]
    /\ sheet["a2"] = [strip |-> Strip("a2", 2), frames |-> 2,
                      status |-> "error"]

-----------------------------------------------------------------------------
(* Properties of the runtime preview's physics and loading.                *)

\* C22: a tick sets vy to the jump impulse only if the jump input is active
\* and the player is grounded at that point of the tick; on a tick where
\* the player is not grounded vy is what gravity and collision make it.
\* Grounded at that point: the player's bottom is below the floor line
\* after the tick's gravity step, so the floor collision grounds the player.
C22_JumpOnlyWhenGrounded ==
    [][(lastOp' = "gameTick" /\ canvasMounted) =>
          LET GroundedAtJump ==
                  player.y + player.vy + gravity + Px(32) > Px(450 - 64)
          IN  /\ player'.vy = jumpForce => (keys.space /\ GroundedAtJump)
              /\ ~GroundedAtJump =>
                    player'.vy \in {player.vy + gravity, 0}]_vars

\* A tick has just applied the impulse with the jump input held.
C22_Witness ==
    /\ lastOp = "gameTick"
    /\ keys.space
    /\ player.vy = jumpForce
    /\ ~player.grounded

\* C23: whenever the player's box overlaps the platform's landing area
\* while descending, the tick ends with vy = 0, grounded and the bottom on
\* the platform's top; the platform never stops the player while vy <= 0;
\* with or without a tile bitmap.  The landing area: the box's sides around
\* the span 300 .. 396 and its bottom within 10 px below the platform's
\* top, which is 100 px above the floor line; the player is taken after the
\* tick's input, physics, floor collision and jump.
C23_PlatformStopsDescent ==
    [][(lastOp' = "gameTick" /\ canvasMounted) =>
          LET p == stateMachine(applyJump(floorCollision(applyPhysics(
                       applyInput(player, keys))), keys))
              OverPlatform ==
                  /\ p.x + Px(32) > Px(300)
                  /\ p.x < Px(396)
                  /\ p.y + Px(32) > Px(450 - 64 - 100)
                  /\ p.y + Px(32) < Px(450 - 64 - 90)
          IN  /\ (OverPlatform /\ p.vy > 0) =>
                    /\ player'.vy = 0
                    /\ player'.grounded
                    /\ player'.y + Px(32) = Px(450 - 64 - 100)
              /\ p.vy <= 0 =>
                    /\ player'.vy = p.vy
                    /\ player'.y = p.y]_vars

\* C24: when a decode fails while a session is loading, the session's
\* simulation loop is not started: no loop callback is registered.
C24_FailedLoadStartsNoLoop ==
    lastOp = "loadFailed" => GameCallbacks = {}

\* C25: no tick executes between the opening of a session and the
\* completion of its decodes, on the first open and on every re-open.
C25_NoTickWhileLoading ==
    lastOp = "gameTick" => pendingLoads = 0

\* C26: after a session's load completes, a plan without a run asset leaves
\* the idle bitmap and the idle frame count in the run slot, and likewise
\* for jump, also in a session that follows one with run or jump present.
C26_FallbackToIdle ==
    lastOp = "loadDone" =>
        /\ plan.run = 0 =>
              (assets.run = assets.idle /\ meta.runFrames = meta.idleFrames)
        /\ plan.jump = 0 =>
              (assets.jump = assets.idle /\ meta.jumpFrames = meta.idleFrames)

\* C27: the runtime preview's source rectangle for frame k of a strip W
\* wide with c frames is the slicer's, x = k * floor(W / c) and
\* width = floor(W / c), for every asset of the plan and every k < c.
C27_PreviewRectIsSlicerRect ==
    \A id \in DOMAIN sheet :
        LET W == Len(sheet[id].strip)
            c == frameCountOf(sheet[id])
            Is(q, n) == q[1] = n * q[2]
        IN  \A k \in 0 .. (c - 1) :
                /\ Is(sourceRect(k, W, c).x, k * frameWidthOf(sheet[id]))
                /\ Is(sourceRect(k, W, c).w, frameWidthOf(sheet[id]))

-----------------------------------------------------------------------------
(* Behaviour of the tools, the timeline and the runtime preview.           *)

\* C31: floodFill terminates for every buffer, start pixel and fill colour:
\* the stack is empty after at most one pop for the start and four for each
\* recoloured pixel, no pixel is recoloured twice, and a start coordinate
\* outside the buffer leaves the buffer unchanged.
C31_FloodFillTerminates ==
    [][\A x \in -1 .. CanvasWidth, y \in -1 .. CanvasHeight,
          c \in HexColours :
          FillAt(x, y, c) =>
              LET run == floodFillRun(canvas, x, y, c)
                  n == Len(run.recoloured)
              IN  /\ run.data = canvas'
                  /\ run.pops <= 1 + 4 * Len(canvas)
                  /\ run.pops \in {0, 1 + 4 * n}
                  /\ \A i, j \in 1 .. n :
                        run.recoloured[i] = run.recoloured[j] => i = j
                  /\ (x < 0 \/ y < 0 \/ x >= CanvasWidth \/ y >= CanvasHeight)
                        => canvas' = canvas]_vars

\* A fill from a pixel of the canvas has recoloured the first two pixels.
C31_Witness ==
    /\ lastOp = "fill"
    /\ canvas[1] = hexToRgba(color)
    /\ canvas[2] = hexToRgba(color)

\* C32: while a timeline session for an asset is open every frame of the
\* timeline was sliced from that asset's bitmap, and the strip an asset
\* holds is made of its own columns.
C32_TimelineOfOpenAsset ==
    /\ animOpen =>
          \A k \in 1 .. Len(frames) :
              \A j \in 1 .. Len(frames[k]) : frames[k][j].a = asset
    /\ \A id \in DOMAIN sheet :
          \A j \in 1 .. Len(sheet[id].strip) : sheet[id].strip[j].a = id

\* C33: after a pointer-down with the picker no pixel of the canvas changes
\* before the pointer is released or leaves: a drag sample that follows the
\* pick leaves the canvas as it was.
C33_PickerPressPaintsNothing ==
    [][(lastOp = "picker" /\ lastOp' = "move") => canvas' = canvas]_vars

\* C34: when a tick ends with the player grounded, on the floor or on the
\* platform, and the jump input is active on the following tick, that tick
\* applies the jump impulse.
C34_GroundedPlayerJumps ==
    [][(/\ lastOp = "gameTick"
        /\ lastOp' = "gameTick"
        /\ canvasMounted
        /\ player.grounded
        /\ keys.space) => player'.vy = jumpForce]_vars

\* C35: the first tick of a session reads only keys pressed during that
\* session: no input flag stays set while no session is open, so a key held
\* down when a session was closed does not move the player in the next one.
C35_NoKeyHeldAcrossSessions ==
    ~gameOpen => keys = NoKeys

\* C36: timeline edits made while a Save is pending do not make the save
\* inconsistent.  The activation of Save keeps the timeline of that moment,
\* edits and re-slicings leave the pending saves as they are, and the
\* completion stores the strip of exactly those frames with their number as
\* the frame count, whatever the timeline has become.
C36_PendingSaveKeepsItsFrames ==
    [][/\ lastOp' = "handleSave" =>
             pendingSaves' =
                 pendingSaves (+) SetToBag({[id |-> asset, frames |-> frames]})
       /\ lastOp' \in {"moveFrame", "deleteFrame", "duplicateFrame",
                        "initDecoded"} => pendingSaves' = pendingSaves
       /\ lastOp' = "saveDone" =>
             \E sv \in BagToSet(pendingSaves) :
                 LET w == Len(sv.frames[1])
                     saved == sheet'[sv.id]
                 IN  /\ saved.frames = Len(sv.frames)
                     /\ Len(saved.strip) = saved.frames * w
                     /\ \A p \in 1 .. Len(saved.strip) :
                           saved.strip[p] =
                               sv.frames[((p - 1) \div w) + 1][((p - 1) % w) + 1]
      ]_vars

\* A save has completed after the timeline was edited to another length
\* while the save was pending.
C36_Witness ==
    /\ lastOp = "saveDone"
    /\ Len(frames) # sheet[asset].frames

\* C37: changing the playback rate while playing does not change the
\* current playback frame index: the loop that runs after the change
\* continues from the frame index of the loop that ran before it.
C37_FpsChangeKeepsFrame ==
    [][(lastOp' = "setFps" /\ isPlaying) =>
          \A old \in AnimCallbacks :
              \A new \in {cb \in raf' : cb.comp = "anim"} :
                  new.currentFrame = old.currentFrame]_vars

\* C38: at the end of every tick the player's bottom edge is at or above
\* the floor line, y + 32 <= 450 - 64, for every sequence of inputs; and a
\* tick from any position and velocity, far above or below the floor,
\* rising or falling, ends so as well.
C38_PlayerStaysAboveFloor ==
    [][(lastOp' = "gameTick" /\ canvasMounted) =>
          /\ player'.y + Px(32) <= Px(450 - 64)
          /\ lastOp = "loadDone" =>
                \A y0 \in {Px(-500), Px(0), Px(353), Px(354), Px(355), Px(900)},
                   vy0 \in {-Px(40), jumpForce, 0, gravity, Px(40)} :
                    gameStep([player EXCEPT !.y = y0, !.vy = vy0], keys,
                             assets, meta).y + Px(32) <= Px(450 - 64)]_vars

\* A tick has just put a falling player on the floor line.
C38_Witness ==
    /\ lastOp = "gameTick"
    /\ player.grounded
    /\ player.y + Px(32) = Px(450 - 64)

\* C39: a save applied to an asset while batch generation is in progress
\* is not lost: a step of the batch leaves the bitmap and the frame count of
\* every asset other than the one it has generated as they were.
C39_BatchKeepsSavedAssets ==
    [][lastOp' = "batchStep" =>
          \A id \in DOMAIN sheet \ {batch[1].cur} :
              /\ sheet'[id].strip = sheet[id].strip
              /\ sheet'[id].frames = sheet[id].frames]_vars

=============================================================================
